---- MODULE Spec2Model ----
(***************************************************************************)
(* WiesnFlow: crowd-density tile engine of the frontend.                   *)
(*                                                                         *)
(*  - tile grid queries and route availability (utils/routeIndicators)     *)
(*  - intensity normalisation of a /map response (MapboxWebView)           *)
(*  - per-tile minute histogram (HomeScreen buildTileDataFromApi)          *)
(*                                                                         *)
(* Coordinates are integers in units of half a tile edge: the tile of      *)
(* (row, col) spans longitudes 2*col .. 2*col+2 and latitudes              *)
(* 2*(GridRows-row-1) .. 2*(GridRows-row), row 0 being the northern row.   *)
(* Times are milliseconds counted from a reference midnight.               *)
(***************************************************************************)
EXTENDS Integers, Sequences, FiniteSets, TLC

VARIABLES
    \* ---- routeIndicators: one call of the exported functions
    stations,       \* argument `stations` of generateRouteIndicators
    entrances,      \* argument `entrances` of generateRouteIndicators
    tileData,       \* argument `tileData`: Record<string, number>
    indicators,     \* << value returned by generateRouteIndicators >>
    overcrowded,    \* << value returned by isEntranceOvercrowded >>
    \* ---- grid queries
    query,          \* [lon, lat, tileId]: arguments of the grid helpers
    found,          \* << value returned by findTileForCoordinate >>
    surrounding,    \* << value returned by getSurroundingTiles >>
    centroid,       \* << pointsFeatures entry of query.tileId >>
    centroidTile,   \* << findTileForCoordinate of that centroid >>
    \* ---- MapboxWebView page script: intensity normalisation
    sourceAdded,    \* map.getSource('oktoberfest-tiles') exists
    inFlight,       \* calls of fetchTileData awaiting their response
    tileIntensityMap, \* tile id -> intensity
    lastTiles,      \* << `tiles` of the call that last wrote the map >>
    rendered,       \* << intensity per feature last given to setData >>
    \* ---- HomeScreen: one call of buildTileDataFromApi
    rows,           \* argument `rows`
    now,            \* new Date() taken by the call
    totals,         \* << local `totals` at return >>
    samples,        \* << local `samples` at return >>
    rawHistory,     \* << local `rawHistory` at return >>
    tileMockData,   \* << value returned >>
    \* ---- HomeScreen: calls of smoothHistory on one array
    smoothInput,    \* the array passed to smoothHistory
    smoothed,       \* << value returned by the latest call >>
    smoothCalls,    \* number of calls made
    \* ---- HomeScreen: decodeWkbPoint and the friend loop of fetchFriends
    wkbInput,       \* argument of decodeWkbPoint: its hex characters
    decoded,        \* << value returned by decodeWkbPoint >>
    friendsData,    \* data.friends of the /friends/map response
    friendsWithCoords, \* << array given to setFriends >>
    \* ---- HomeScreen -> map page: updateTileData messages
    focused,        \* HomeScreen has run its focus effect
    webViewMessages, \* updateTileData messages posted, not yet handled
    featureState,   \* density feature state of the tiles the handler has set
    incomingTiles,   \* << data.tiles of the message handled last >>
    \* ---- generate_tiles_json: the features written to oktoberfest_tiles.json
    generated,       \* features emitted so far, in order
    \* ---- HomeScreen: TileDetailsCard and the selection it shows
    selectedTile,   \* tileId of the prop `tile`, Null when none is selected
    cardTileData,   \* state tileData: << >> for null, << data >> otherwise
    isLoading,      \* state isLoading
    loads,           \* runs of `load` awaiting their response, oldest first
    \* ---- LocationTrackerScreen: handleToggleSharing
    isSharing,      \* state isSharing
    locationIntervalRef, \* locationIntervalRef.current, 0 for null
    intervals,      \* ids of the intervals set and not cleared
    sharingStarts,  \* await each running start of sharing is at, oldest first
    trackerMounted,  \* the screen is mounted
    \* ---- FriendsScreen: QR scanner, name dialog and handleAddFriend
    storedUuid,     \* AsyncStorage value under UUID_STORAGE_KEY
    userUuid,       \* useState userUuid
    showScanner,    \* useState showScanner
    scanned,        \* useState scanned
    isAddingFriend, \* useState isAddingFriend
    showNameInput,  \* useState showNameInput
    scannedFriendId, \* useState scannedFriendId
    isProcessingScanRef, \* isProcessingScanRef.current
    screen,         \* the values the handlers of the last render closed over
    addCalls,       \* handleAddFriend calls suspended at an await
    addRequests,    \* friend/user ids of the /friends/add requests issued
    namedFriends,   \* ids saveFriendName has stored a name for
    alertShown,     \* message of the Alert on display
    scansProcessed  \* barcode events handled since the scanner opened

routeVars == <<stations, entrances, tileData, indicators, overcrowded>>
gridVars  == <<query, found, surrounding, centroid, centroidTile>>
normVars  == <<sourceAdded, inFlight, tileIntensityMap, lastTiles, rendered>>
buildVars == <<rows, now, totals, samples, rawHistory, tileMockData>>
smoothVars == <<smoothInput, smoothed, smoothCalls>>
decodeVars == <<wkbInput, decoded, friendsData, friendsWithCoords>>
messageVars == <<focused, webViewMessages, featureState, incomingTiles>>
generatedVars == <<generated>>
cardVars == <<selectedTile, cardTileData, isLoading, loads>>
shareVars == <<isSharing, locationIntervalRef, intervals, sharingStarts, trackerMounted>>
scanVars == <<storedUuid, userUuid, showScanner, scanned, isAddingFriend, showNameInput, scannedFriendId, isProcessingScanRef, screen, addCalls, addRequests, namedFriends, alertShown, scansProcessed>>
vars      == <<routeVars, gridVars, normVars, buildVars, smoothVars, decodeVars,
              messageVars,
              generatedVars,
              cardVars,
              shareVars,
              scanVars>>

\* what the actions of one part leave alone
notRouteVars  == <<gridVars, normVars, buildVars, smoothVars, decodeVars,
                   messageVars,
                   generatedVars,
                   cardVars,
                   shareVars,
                   scanVars>>
notGridVars   == <<routeVars, normVars, buildVars, smoothVars, decodeVars,
                   messageVars,
                   generatedVars,
                   cardVars,
                   shareVars,
                   scanVars>>
notNormVars   == <<routeVars, gridVars, buildVars, smoothVars, decodeVars,
                   messageVars,
                   generatedVars,
                   cardVars,
                   shareVars,
                   scanVars>>
notBuildVars  == <<routeVars, gridVars, normVars, smoothVars, decodeVars,
                   messageVars,
                   generatedVars,
                   cardVars,
                   shareVars,
                   scanVars>>
notSmoothVars == <<routeVars, gridVars, normVars, buildVars, decodeVars,
                   messageVars,
                   generatedVars,
                   cardVars,
                   shareVars,
                   scanVars>>
notDecodeVars == <<routeVars, gridVars, normVars, buildVars, smoothVars,
                   messageVars,
                   generatedVars,
                   cardVars,
                   shareVars,
                   scanVars>>
notMessageVars == <<routeVars, gridVars, normVars, buildVars,
                   smoothVars, decodeVars,
                   generatedVars,
                   cardVars,
                   shareVars,
                   scanVars>>
notGeneratedVars == <<routeVars, gridVars, normVars, buildVars,
                   smoothVars, decodeVars, messageVars,
                   cardVars,
                   shareVars,
                   scanVars>>
notCardVars == <<routeVars, gridVars, normVars, buildVars,
                   smoothVars, decodeVars, messageVars, generatedVars,
                   shareVars,
                   scanVars>>
notShareVars == <<routeVars, gridVars, normVars, buildVars,
                   smoothVars, decodeVars, messageVars, generatedVars,
                   cardVars,
                   scanVars>>
notScanVars == <<routeVars, gridVars, normVars, buildVars,
                   smoothVars, decodeVars, messageVars, generatedVars,
                   cardVars, shareVars>>

(***************************************************************************)
(* Bounds                                                                  *)
(***************************************************************************)
GridRows   == 3     \* rows of the modelled grid (numTilesHeight)
GridCols   == 3     \* columns of the modelled grid (numTilesWidth)
MaxEntries == 1     \* keys present in a tileData argument

\* a result variable holds << >> until the call has returned, then << value >>
Pending == << >>
Returned(value) == << value >>
Null    == "null"

(***************************************************************************)
(* oktoberfest_tiles.json                                                  *)
(***************************************************************************)
TileId(row, col) == "tile_" \o ToString(row) \o "_" \o ToString(col)

\* Polygon ring of a tile: top-left, top-right, bottom-right, bottom-left,
\* top-left again, each point [lon, lat].
TileRing(row, col) ==
    LET west  == 2 * col
        east  == 2 * col + 2
        north == 2 * (GridRows - row)
        south == 2 * (GridRows - row - 1)
    IN  << <<west, north>>, <<east, north>>, <<east, south>>,
           <<west, south>>, <<west, north>> >>

Feature(row, col) ==
    [ id          |-> TileId(row, col),
      properties  |-> [tileId |-> TileId(row, col), row |-> row, col |-> col],
      geometry    |-> [type |-> "Polygon", coordinates |-> TileRing(row, col)] ]

\* features in row-major order from the north-west corner
oktoberfestTiles ==
    [ i \in 1..(GridRows * GridCols) |->
        Feature((i - 1) \div GridCols, (i - 1) % GridCols) ]

TileIds == { oktoberfestTiles[i].id : i \in DOMAIN oktoberfestTiles }

(***************************************************************************)
(* JavaScript helpers                                                      *)
(***************************************************************************)
SetMin(S) == CHOOSE m \in S : \A x \in S : m <= x
SetMax(S) == CHOOSE m \in S : \A x \in S : m >= x
Range(s)  == { s[i] : i \in DOMAIN s }

\* the first of the indices `hits` at which a test succeeds, 0 when there
\* is none (Array.prototype.find / the early return of a for..of loop)
FirstIndex(hits) == IF hits = {} THEN 0 ELSE SetMin(hits)

\* tileData[id] || 0
CountOf(data, id) == IF id \in DOMAIN data THEN data[id] ELSE 0

(***************************************************************************)
(* routeIndicators: findTileForCoordinate                                  *)
(***************************************************************************)
FeatureContainsNoUpperBound(feature, lon, lat) ==
    LET coords == feature.geometry.coordinates
        lons   == { coords[i][1] : i \in DOMAIN coords }
        lats   == { coords[i][2] : i \in DOMAIN coords }
    IN  /\ feature.geometry.type = "Polygon"
        /\ lon >= SetMin(lons) /\ lat >= SetMin(lats)

FeatureContains(feature, lon, lat) ==
    LET coords == feature.geometry.coordinates
        lons   == { coords[i][1] : i \in DOMAIN coords }
        lats   == { coords[i][2] : i \in DOMAIN coords }
        minLon == SetMin(lons)
        maxLon == SetMax(lons)
        minLat == SetMin(lats)
        maxLat == SetMax(lats)
    IN  /\ feature.geometry.type = "Polygon"
        /\ lon >= minLon /\ lon <= maxLon /\ lat >= minLat /\ lat <= maxLat

findTileForCoordinateLastMatch(lon, lat) ==
    LET hits == { i \in DOMAIN oktoberfestTiles :
                    FeatureContains(oktoberfestTiles[i], lon, lat) }
    IN  IF hits = {} THEN Null
        ELSE oktoberfestTiles[SetMax(hits)].properties.tileId

findTileForCoordinate(lon, lat) ==
    LET i == FirstIndex({ j \in DOMAIN oktoberfestTiles :
                            FeatureContains(oktoberfestTiles[j], lon, lat) })
    IN  IF i = 0 THEN Null ELSE oktoberfestTiles[i].properties.tileId

(***************************************************************************)
(* routeIndicators: getSurroundingTiles                                    *)
(***************************************************************************)
\* the (dr, dc) pairs in the order of the two nested loops, centre skipped
Offsets ==
    << <<-1, -1>>, <<-1, 0>>, <<-1, 1>>, <<0, -1>>, <<0, 1>>,
       <<1, -1>>, <<1, 0>>, <<1, 1>> >>

RECURSIVE CollectSurrounding(_, _, _)
CollectSurrounding(row, col, k) ==
    IF k > Len(Offsets) THEN << >>
    ELSE LET i == FirstIndex({ j \in DOMAIN oktoberfestTiles :
                      /\ oktoberfestTiles[j].properties.row = row + Offsets[k][1]
                      /\ oktoberfestTiles[j].properties.col = col + Offsets[k][2] })
             rest == CollectSurrounding(row, col, k + 1)
         IN  IF i = 0 THEN rest
             ELSE << oktoberfestTiles[i].properties.tileId >> \o rest

getSurroundingTiles(tileId) ==
    LET i == FirstIndex({ j \in DOMAIN oktoberfestTiles :
                            oktoberfestTiles[j].properties.tileId = tileId })
    IN  IF i = 0 THEN << >>
        ELSE LET tile == oktoberfestTiles[i]
             IN  \* !tile.properties.row || !tile.properties.col: 0 is falsy
                 IF tile.properties.row = 0 \/ tile.properties.col = 0
                 THEN << >>
                 ELSE CollectSurrounding(tile.properties.row,
                                         tile.properties.col, 1)

(***************************************************************************)
(* routeIndicators: isEntranceOvercrowded                                  *)
(***************************************************************************)
isEntranceOvercrowdedInclusive(entranceCoords, data) ==
    LET tileId == findTileForCoordinate(entranceCoords[1], entranceCoords[2])
    IN  IF tileId = Null THEN FALSE
        ELSE \/ CountOf(data, tileId) >= 60
             \/ \E k \in DOMAIN getSurroundingTiles(tileId) :
                    CountOf(data, getSurroundingTiles(tileId)[k]) >= 60

isEntranceOvercrowdedFailClosed(entranceCoords, data) ==
    LET tileId == findTileForCoordinate(entranceCoords[1], entranceCoords[2])
    IN  IF tileId = Null THEN TRUE
        ELSE \/ CountOf(data, tileId) > 60
             \/ \E k \in DOMAIN getSurroundingTiles(tileId) :
                    CountOf(data, getSurroundingTiles(tileId)[k]) > 60

isEntranceOvercrowded(entranceCoords, data) ==
    LET tileId == findTileForCoordinate(entranceCoords[1], entranceCoords[2])
    IN  IF tileId = Null THEN FALSE
        ELSE \/ CountOf(data, tileId) > 60
             \/ \E k \in DOMAIN getSurroundingTiles(tileId) :
                    CountOf(data, getSurroundingTiles(tileId)[k]) > 60

(***************************************************************************)
(* routeIndicators: generateRouteIndicators                                *)
(***************************************************************************)
STATION_ENTRANCE_MAP ==
    [ s \in { "ubahn-goetheplatz", "ubahn-theresienwiese",
              "ubahn-poccistrasse", "ubahn-schwanthalerhöhe" } |->
        CASE s = "ubahn-goetheplatz" ->
                << "entrance-east", "entrance-north-east" >>
          [] s = "ubahn-theresienwiese" ->
                << "entrance-main", "entrance-nord", "entrance-north-east" >>
          [] s = "ubahn-poccistrasse" ->
                << "entrance-east", "entrance-south", "entrance-south-west" >>
          [] s = "ubahn-schwanthalerhöhe" ->
                << "entrance-south-west", "entrance-west", "entrance-main" >> ]

\* midpoint of two coordinates, in units of a quarter tile edge so that the
\* halving of the source stays exact: the pair holds coord1 + coord2
getMidpoint(coord1, coord2) ==
    << coord1[1] + coord2[1], coord1[2] + coord2[2] >>

RECURSIVE LinksOfStation(_, _, _, _, _)
LinksOfStation(station, assigned, k, ents, data) ==
    IF k > Len(assigned) THEN << >>
    ELSE LET i    == FirstIndex({ j \in DOMAIN ents : ents[j].id = assigned[k] })
             rest == LinksOfStation(station, assigned, k + 1, ents, data)
         IN  IF i = 0 THEN rest
             ELSE LET entrance  == ents[i]
                      isBlocked == isEntranceOvercrowded(entrance.coordinates,
                                                         data)
                  IN  << [ id           |-> << station.id, entrance.id >>,
                           from         |-> station.coordinates,
                           to           |-> entrance.coordinates,
                           midpoint     |-> getMidpoint(station.coordinates,
                                                        entrance.coordinates),
                           status       |-> IF isBlocked THEN "blocked"
                                            ELSE "available",
                           stationName  |-> station.name,
                           entranceName |-> entrance.name ] >> \o rest

\* variant that stops at the first station without an adjacency list
RECURSIVE generateFromStopAtUnknown(_, _, _, _)
generateFromStopAtUnknown(sts, k, ents, data) ==
    IF k > Len(sts) THEN << >>
    ELSE LET station == sts[k]
         IN  IF station.id \notin DOMAIN STATION_ENTRANCE_MAP THEN << >>
             ELSE LinksOfStation(station, STATION_ENTRANCE_MAP[station.id],
                                 1, ents, data)
                    \o generateFromStopAtUnknown(sts, k + 1, ents, data)

RECURSIVE generateFrom(_, _, _, _)
generateFrom(sts, k, ents, data) ==
    IF k > Len(sts) THEN << >>
    ELSE LET station == sts[k]
             rest    == generateFrom(sts, k + 1, ents, data)
         IN  IF station.id \notin DOMAIN STATION_ENTRANCE_MAP THEN rest
             ELSE LinksOfStation(station, STATION_ENTRANCE_MAP[station.id],
                                 1, ents, data) \o rest

generateRouteIndicators(sts, ents, data) == generateFrom(sts, 1, ents, data)

(***************************************************************************)
(* Inputs of the route functions                                           *)
(***************************************************************************)
Lons == -1 .. (2 * GridCols + 1)
Lats == -1 .. (2 * GridRows + 1)
Points == Lons \X Lats

\* entrance coordinates: the tile centroids, the grid vertices and the
\* points one unit outside the box
EntrancePoints == { p \in Points : p[1] % 2 = p[2] % 2 }

\* the point opposite to p with respect to the centre of the grid
Mirror(p) == << 2 * GridCols - p[1], 2 * GridRows - p[2] >>

CountValues == {60, 61}

TileDataMaps ==
    UNION { [ keys -> CountValues ] :
              keys \in { k \in SUBSET TileIds : Cardinality(k) <= MaxEntries } }

Station(id) == [ id |-> id, name |-> id, coordinates |-> << -1, -1 >> ]

\* (station ids, entrance ids) of a call; "ubahn-hauptbahnhof" is no key of
\* STATION_ENTRANCE_MAP and "entrance-ghost" is in no adjacency list
RouteInputs ==
    { << << "ubahn-goetheplatz" >>, << "entrance-east" >> >>,
      << << "ubahn-hauptbahnhof", "ubahn-theresienwiese" >>,
         << "entrance-north-east", "entrance-main" >> >>,
      << << "ubahn-poccistrasse", "ubahn-schwanthalerhöhe" >>,
         << "entrance-south-west", "entrance-ghost", "entrance-east" >> >>,
      << << "ubahn-goetheplatz" >>, << >> >> }

\* the first entrance lies at p, every other one at the mirrored point
EntrancesAt(ids, p) ==
    [ i \in DOMAIN ids |->
        [ id |-> ids[i], name |-> ids[i],
          coordinates |-> IF i = 1 THEN p ELSE Mirror(p) ] ]

GridIdle ==
    /\ query = [ lon |-> 0, lat |-> 0, tileId |-> Null ]
    /\ found = Pending
    /\ surrounding = Pending
    /\ centroid = Pending
    /\ centroidTile = Pending

RouteIdle ==
    /\ stations = << >>
    /\ entrances = << >>
    /\ tileData = << >>
    /\ indicators = Pending
    /\ overcrowded = Pending

NormIdle ==
    /\ sourceAdded = FALSE
    /\ inFlight = 0
    /\ tileIntensityMap = << >>
    /\ lastTiles = Pending
    /\ rendered = Pending

BuildIdle ==
    /\ rows = << >>
    /\ now = 0
    /\ totals = Pending
    /\ samples = Pending
    /\ rawHistory = Pending
    /\ tileMockData = Pending

SmoothIdle ==
    /\ smoothInput = << >>
    /\ smoothed = Pending
    /\ smoothCalls = 0

DecodeIdle ==
    /\ wkbInput = << >>
    /\ decoded = Pending
    /\ friendsData = << >>
    /\ friendsWithCoords = Pending

MessageIdle ==
    /\ focused = FALSE
    /\ webViewMessages = << >>
    /\ featureState = << >>
    /\ incomingTiles = Pending

GeneratedIdle ==
    /\ generated = << >>

CardIdle ==
    /\ selectedTile = Null
    /\ cardTileData = Pending
    /\ isLoading = FALSE
    /\ loads = << >>

ShareIdle ==
    /\ isSharing = FALSE
    /\ locationIntervalRef = 0
    /\ intervals = {}
    /\ sharingStarts = << >>
    /\ trackerMounted = FALSE

ScanIdle ==
    /\ storedUuid = Null
    /\ userUuid = Null
    /\ showScanner = FALSE
    /\ scanned = FALSE
    /\ isAddingFriend = FALSE
    /\ showNameInput = FALSE
    /\ scannedFriendId = Null
    /\ isProcessingScanRef = FALSE
    /\ screen = << >>
    /\ addCalls = << >>
    /\ addRequests = {}
    /\ namedFriends = {}
    /\ alertShown = Null
    /\ scansProcessed = 0

NotRouteIdle  == GridIdle /\ NormIdle /\ BuildIdle /\ SmoothIdle /\ DecodeIdle
                   /\ MessageIdle
                   /\ GeneratedIdle
                   /\ CardIdle
                   /\ ShareIdle
                   /\ ScanIdle
NotGridIdle   == RouteIdle /\ NormIdle /\ BuildIdle /\ SmoothIdle /\ DecodeIdle
                   /\ MessageIdle
                   /\ GeneratedIdle
                   /\ CardIdle
                   /\ ShareIdle
                   /\ ScanIdle
NotNormIdle   == RouteIdle /\ GridIdle /\ BuildIdle /\ SmoothIdle /\ DecodeIdle
                   /\ MessageIdle
                   /\ GeneratedIdle
                   /\ CardIdle
                   /\ ShareIdle
                   /\ ScanIdle
NotBuildIdle  == RouteIdle /\ GridIdle /\ NormIdle /\ SmoothIdle /\ DecodeIdle
                   /\ MessageIdle
                   /\ GeneratedIdle
                   /\ CardIdle
                   /\ ShareIdle
                   /\ ScanIdle
NotSmoothIdle == RouteIdle /\ GridIdle /\ NormIdle /\ BuildIdle /\ DecodeIdle
                   /\ MessageIdle
                   /\ GeneratedIdle
                   /\ CardIdle
                   /\ ShareIdle
                   /\ ScanIdle
NotDecodeIdle == RouteIdle /\ GridIdle /\ NormIdle /\ BuildIdle /\ SmoothIdle
                   /\ MessageIdle
                   /\ GeneratedIdle
                   /\ CardIdle
                   /\ ShareIdle
                   /\ ScanIdle
NotMessageIdle ==
    /\ GridIdle
    /\ RouteIdle
    /\ NormIdle
    /\ BuildIdle
    /\ SmoothIdle
    /\ DecodeIdle
                   /\ GeneratedIdle
                   /\ CardIdle
                   /\ ShareIdle
                   /\ ScanIdle
NotGeneratedIdle ==
    /\ GridIdle
    /\ RouteIdle
    /\ NormIdle
    /\ BuildIdle
    /\ SmoothIdle
    /\ DecodeIdle
    /\ MessageIdle
                   /\ CardIdle
                   /\ ShareIdle
                   /\ ScanIdle
NotCardIdle ==
    /\ GridIdle
    /\ RouteIdle
    /\ NormIdle
    /\ BuildIdle
    /\ SmoothIdle
    /\ DecodeIdle
    /\ MessageIdle
    /\ GeneratedIdle
                   /\ ShareIdle
                   /\ ScanIdle
NotShareIdle ==
    /\ GridIdle
    /\ RouteIdle
    /\ NormIdle
    /\ BuildIdle
    /\ SmoothIdle
    /\ DecodeIdle
    /\ MessageIdle
    /\ GeneratedIdle
    /\ CardIdle
                   /\ ScanIdle
NotScanIdle ==
    /\ GridIdle
    /\ RouteIdle
    /\ NormIdle
    /\ BuildIdle
    /\ SmoothIdle
    /\ DecodeIdle
    /\ MessageIdle
    /\ GeneratedIdle
    /\ CardIdle
    /\ ShareIdle

(***************************************************************************)
(* Route availability: calls of the exported functions                     *)
(***************************************************************************)
RouteInit ==
    /\ \E in \in RouteInputs, p \in EntrancePoints :
          /\ stations = [ i \in DOMAIN in[1] |-> Station(in[1][i]) ]
          /\ entrances = EntrancesAt(in[2], p)
    /\ tileData \in TileDataMaps
    /\ indicators = Pending
    /\ overcrowded = Pending
    /\ NotRouteIdle

\* isEntranceOvercrowded(entrances[0].coordinates, tileData)
IsEntranceOvercrowded ==
    /\ overcrowded = Pending
    /\ entrances # << >>
    /\ overcrowded' =
          Returned(isEntranceOvercrowded(entrances[1].coordinates, tileData))
    /\ UNCHANGED <<stations, entrances, tileData, indicators, notRouteVars>>

\* generateRouteIndicators(stations, entrances, tileData)
GenerateRouteIndicators ==
    /\ indicators = Pending
    /\ indicators' =
          Returned(generateRouteIndicators(stations, entrances, tileData))
    /\ UNCHANGED <<stations, entrances, tileData, overcrowded, notRouteVars>>

RouteNext == IsEntranceOvercrowded \/ GenerateRouteIndicators

RouteSpec == RouteInit /\ [][RouteNext]_vars

(***************************************************************************)
(* Grid queries                                                            *)
(***************************************************************************)
\* "tile_9_9" is an id of no tile
QueryTileIds == TileIds \cup { "tile_9_9" }

GridInit ==
    /\ query \in [ lon : Lons, lat : Lats, tileId : QueryTileIds ]
    /\ found = Pending
    /\ surrounding = Pending
    /\ centroid = Pending
    /\ centroidTile = Pending
    /\ NotGridIdle

FindTileForCoordinate ==
    /\ found = Pending
    /\ found' = Returned(findTileForCoordinate(query.lon, query.lat))
    /\ UNCHANGED <<query, surrounding, centroid, centroidTile, notGridVars>>

GetSurroundingTiles ==
    /\ surrounding = Pending
    /\ surrounding' = Returned(getSurroundingTiles(query.tileId))
    /\ UNCHANGED <<query, found, centroid, centroidTile, notGridVars>>

\* MapboxWebView pointsFeatures: centroid of the feature's ring
pointsFeature(feature) ==
    LET coords == feature.geometry.coordinates
        lons   == { coords[i][1] : i \in DOMAIN coords }
        lats   == { coords[i][2] : i \in DOMAIN coords }
        centerLon == (SetMin(lons) + SetMax(lons)) \div 2
        centerLat == (SetMin(lats) + SetMax(lats)) \div 2
    IN  [ id          |-> feature.properties.tileId,
          properties  |-> feature.properties,
          geometry    |-> [ type |-> "Point",
                            coordinates |-> << centerLon, centerLat >> ] ]

\* the centroid of the queried tile is taken from pointsFeatures
ComputeCentroid ==
    /\ centroid = Pending
    /\ \E i \in DOMAIN oktoberfestTiles :
          /\ oktoberfestTiles[i].properties.tileId = query.tileId
          /\ centroid' = Returned(pointsFeature(oktoberfestTiles[i]))
    /\ UNCHANGED <<query, found, surrounding, centroidTile, notGridVars>>

\* and resolved back to a tile
ResolveCentroid ==
    /\ centroid # Pending
    /\ centroidTile = Pending
    /\ centroidTile' =
          Returned(findTileForCoordinate(centroid[1].geometry.coordinates[1],
                                         centroid[1].geometry.coordinates[2]))
    /\ UNCHANGED <<query, found, surrounding, centroid, notGridVars>>

GridNext ==
    \/ FindTileForCoordinate
    \/ GetSurroundingTiles
    \/ ComputeCentroid
    \/ ResolveCentroid

GridSpec == GridInit /\ [][GridNext]_vars

(***************************************************************************)
(* Properties of the grid and of route availability                        *)
(***************************************************************************)
RowsOfGrid == 0 .. (GridRows - 1)
ColsOfGrid == 0 .. (GridCols - 1)

\* (row, col) named by a tile id
RowColOf(id) == CHOOSE rc \in RowsOfGrid \X ColsOfGrid : TileId(rc[1], rc[2]) = id

\* ids of the tiles at (row+dr, col+dc), (dr, dc) # (0, 0), that exist
InGridNeighbours(id) ==
    LET rc == RowColOf(id)
    IN  { TileId(rc[1] + dr, rc[2] + dc) :
            <<dr, dc>> \in { d \in (-1..1) \X (-1..1) :
                               /\ d # <<0, 0>>
                               /\ rc[1] + d[1] \in RowsOfGrid
                               /\ rc[2] + d[2] \in ColsOfGrid } }

\* the tile or one of its in-grid neighbours holds a count above 60
Crowded(id) ==
    \/ CountOf(tileData, id) > 60
    \/ \E n \in InGridNeighbours(id) : CountOf(tileData, n) > 60

Links == IF indicators = Pending THEN {} ELSE Range(indicators[1])

EntranceTile(coords) == findTileForCoordinate(coords[1], coords[2])

\* C3: for an entrance that resolves to a tile, anywhere in the grid, a count
\* above 60 on any one in-grid neighbour makes isEntranceOvercrowded return
\* true and gives every link to that entrance the status 'blocked'.
C3_NeighbourBlocks ==
    /\ \A link \in Links :
          LET t == EntranceTile(link.to)
          IN  (t # Null /\ \E n \in InGridNeighbours(t) :
                              CountOf(tileData, n) > 60)
              => link.status = "blocked"
    /\ (overcrowded # Pending) =>
          LET t == EntranceTile(entrances[1].coordinates)
          IN  (t # Null /\ \E n \in InGridNeighbours(t) :
                              CountOf(tileData, n) > 60)
              => overcrowded[1] = TRUE

\* C4: the test is strict: with the entrance's tile and all its neighbours at
\* 60 or below (or missing from the map) isEntranceOvercrowded returns false
\* and the link is 'available'; 'blocked' needs a count above 60 on the
\* entrance's tile or on a neighbour.
C4_StrictThreshold ==
    /\ \A link \in Links :
          LET t == EntranceTile(link.to)
          IN  /\ link.status \in { "available", "blocked" }
              /\ (t # Null /\ link.status = "blocked") => Crowded(t)
    /\ (overcrowded # Pending) =>
          LET t == EntranceTile(entrances[1].coordinates)
          IN  (t # Null /\ overcrowded[1] = TRUE) => Crowded(t)

\* a link whose entrance tile holds exactly 60, with no count above 60 on it
\* or around it, came out 'available'
C4_Witness ==
    /\ overcrowded = Returned(FALSE)
    /\ \E link \in Links :
          LET t == EntranceTile(link.to)
          IN  /\ t # Null
              /\ getSurroundingTiles(t) # << >>
              /\ CountOf(tileData, t) = 60
              /\ ~Crowded(t)
              /\ link.status = "available"

\* C5: getSurroundingTiles returns exactly the existing tiles at row+-1,
\* col+-1: at most 8 ids, never the tile itself, never an id outside the
\* grid, no existing neighbour left out (3 / 5 / 8 for corner / edge /
\* interior tiles).
C5_SurroundingExact ==
    (surrounding # Pending /\ query.tileId \in TileIds) =>
        /\ Range(surrounding[1]) = InGridNeighbours(query.tileId)
        /\ Len(surrounding[1]) = Cardinality(InGridNeighbours(query.tileId))
        /\ Len(surrounding[1]) <= 8
        /\ query.tileId \notin Range(surrounding[1])
        /\ Range(surrounding[1]) \subseteq TileIds

\* tiles whose membership test accepts the queried point
Accepting ==
    { i \in DOMAIN oktoberfestTiles :
        FeatureContains(oktoberfestTiles[i], query.lon, query.lat) }

InsideBox ==
    /\ query.lon >= 0 /\ query.lon <= 2 * GridCols
    /\ query.lat >= 0 /\ query.lat <= 2 * GridRows

\* C6 as stated: the membership test puts a point inside the box in exactly
\* one tile (also on an edge shared by two tiles), which is the tile
\* returned; a point outside the box resolves to null.
C6_HalfOpenMembership ==
    (found # Pending) =>
        IF InsideBox
        THEN /\ Cardinality(Accepting) = 1
             /\ \A i \in Accepting :
                   found[1] = oktoberfestTiles[i].properties.tileId
        ELSE found[1] = Null

\* C6 as amended: the test is on closed intervals and the first accepting
\* tile in row-major order wins: the northernmost row and then the
\* westernmost column whose closed interval holds the point; null outside
\* the closed box.
C6_ClosedFirstMatch ==
    (found # Pending) =>
        IF InsideBox
        THEN LET rs == { r \in RowsOfGrid :
                           /\ query.lat >= 2 * (GridRows - r - 1)
                           /\ query.lat <= 2 * (GridRows - r) }
                 cs == { c \in ColsOfGrid :
                           /\ query.lon >= 2 * c
                           /\ query.lon <= 2 * c + 2 }
             IN  found[1] = TileId(SetMin(rs), SetMin(cs))
        ELSE found[1] = Null

\* a point on an edge shared by two tiles has been resolved
C6_Witness ==
    /\ found # Pending
    /\ Cardinality(Accepting) = 2
    /\ found[1] \in TileIds

\* C7: resolving the centroid of a tile returns that tile.
C7_CentroidResolves ==
    (centroidTile # Pending) =>
        /\ centroid[1].id = query.tileId
        /\ centroidTile[1] = query.tileId

\* the centroid of a tile of row 0 has been resolved
C7_Witness ==
    /\ centroidTile # Pending
    /\ query.tileId \in TileIds
    /\ RowColOf(query.tileId)[1] = 0
    /\ centroidTile[1] = query.tileId

\* C8: coordinates that resolve to no tile fail open: isEntranceOvercrowded
\* returns false and the link of that entrance is emitted as 'available'.
C8_UnresolvedFailsOpen ==
    /\ (overcrowded # Pending
          /\ EntranceTile(entrances[1].coordinates) = Null)
       => overcrowded[1] = FALSE
    /\ (indicators # Pending) =>
          \A k \in DOMAIN stations, j \in DOMAIN entrances :
             LET s == stations[k]
                 e == entrances[j]
             IN  ( /\ s.id \in DOMAIN STATION_ENTRANCE_MAP
                   /\ e.id \in Range(STATION_ENTRANCE_MAP[s.id])
                   /\ EntranceTile(e.coordinates) = Null )
                 => \E link \in Links :
                       /\ link.id = << s.id, e.id >>
                       /\ link.to = e.coordinates
                       /\ link.status = "available"

\* a link to an unresolvable entrance was emitted while a tile held 61
C8_Witness ==
    /\ overcrowded = Returned(FALSE)
    /\ \E id \in DOMAIN tileData : tileData[id] > 60
    /\ \E link \in Links :
          /\ EntranceTile(link.to) = Null
          /\ link.to = entrances[1].coordinates
          /\ link.status = "available"

(***************************************************************************)
(* MapboxWebView page script: fetchTileData and updateTileColors           *)
(*                                                                         *)
(* An intensity is the exact quotient [num, den] in lowest terms.          *)
(***************************************************************************)
MaxInFlight == 2    \* calls of fetchTileData awaiting a response at once

RECURSIVE GCD(_, _)
GCD(a, b) == IF b = 0 THEN a ELSE GCD(b, a % b)

Frac(n, d) == LET g == GCD(n, d) IN [ num |-> n \div g, den |-> d \div g ]
Zero    == [ num |-> 0, den |-> 1 ]
Hundred == [ num |-> 100, den |-> 1 ]
FracLeq(x, y) == x.num * y.den <= y.num * x.den
\* Math.min
FracMin(x, y) == IF FracLeq(x, y) THEN x ELSE y

\* let maxCount = 0; Object.values(tiles).forEach(count => { if (count >
\* maxCount) maxCount = count; })
RECURSIVE MaxCountFrom(_, _, _)
MaxCountFrom(tiles, keys, maxCount) ==
    IF keys = {} THEN maxCount
    ELSE LET k == CHOOSE x \in keys : TRUE
             count == tiles[k]
         IN  MaxCountFrom(tiles, keys \ {k},
                          IF count > maxCount THEN count ELSE maxCount)

RECURSIVE SumCountFrom(_, _, _)
SumCountFrom(tiles, keys, maxCount) ==
    IF keys = {} THEN maxCount
    ELSE LET k == CHOOSE x \in keys : TRUE
         IN  SumCountFrom(tiles, keys \ {k}, maxCount + tiles[k])

MaxCountOfSum(tiles) == SumCountFrom(tiles, DOMAIN tiles, 0)

MaxCountOf(tiles) == MaxCountFrom(tiles, DOMAIN tiles, 0)

\* maxCount > 0 ? Math.min(100, (count / maxCount) * 100) : 0
IntensityNoDivision(count, maxCount) ==
    IF maxCount > 0 THEN Frac(count * 100, 1) ELSE Zero

Intensity(count, maxCount) ==
    IF maxCount > 0
    THEN FracMin(Hundred, Frac(count * 100, maxCount))
    ELSE Zero

\* the map written by one run of the normalisation
\* variant that scales every count by its own value instead of the maximum
NormalizeOwnMax(tiles) ==
    [ tileId \in DOMAIN tiles |-> Intensity(tiles[tileId], tiles[tileId]) ]

Normalize(tiles) ==
    [ tileId \in DOMAIN tiles |-> Intensity(tiles[tileId], MaxCountOf(tiles)) ]

\* feature.properties.intensity of every feature after updateTileColors
FeatureIntensities(map) ==
    [ tileId \in TileIds |->
        IF tileId \in DOMAIN map THEN map[tileId] ELSE Zero ]

\* keys and counts of the `tiles` object of a /map response
ResponseKeys   == { TileId(0, 0), TileId(0, 1), TileId(1, 1) }
ResponseCounts == { 0, 1, 3, 10, 100 }
TilesObjects   == UNION { [ keys -> ResponseCounts ] : keys \in SUBSET ResponseKeys }
\* data.tiles may be absent: data.tiles || {}
Responses ==
    { [ hasTiles |-> TRUE, tiles |-> t ] : t \in TilesObjects }
      \cup { [ hasTiles |-> FALSE, tiles |-> << >> ] }

NormInit ==
    /\ sourceAdded = FALSE
    /\ inFlight = 0
    /\ tileIntensityMap = << >>
    /\ lastTiles = Pending
    /\ rendered = Pending
    /\ NotNormIdle

\* setInterval(fetchTileData, 5000): a call starts and awaits fetch(url)
PollTimer ==
    /\ inFlight < MaxInFlight
    /\ inFlight' = inFlight + 1
    /\ UNCHANGED <<sourceAdded, tileIntensityMap, lastTiles, rendered,
                   notNormVars>>

\* 'styledata' -> addTiles(): adds the source once and fetches initial data
AddTiles ==
    /\ ~sourceAdded
    /\ inFlight < MaxInFlight
    /\ sourceAdded' = TRUE
    /\ inFlight' = inFlight + 1
    /\ UNCHANGED <<tileIntensityMap, lastTiles, rendered,
                   notNormVars>>

\* a call resumes with an OK response whose body parses: normalises it and
\* calls updateTileColors
FetchTileDataOk ==
    /\ inFlight > 0
    /\ \E data \in Responses :
          LET tiles == IF data.hasTiles THEN data.tiles ELSE << >>
              map   == Normalize(tiles)
          IN  /\ tileIntensityMap' = map
              /\ lastTiles' = Returned(tiles)
              /\ rendered' = IF sourceAdded
                             THEN Returned(FeatureIntensities(map))
                             ELSE rendered
    /\ inFlight' = inFlight - 1
    /\ UNCHANGED <<sourceAdded, notNormVars>>

\* a call resumes with !response.ok: logs and returns
FetchTileDataNotOk ==
    /\ inFlight > 0
    /\ inFlight' = inFlight - 1
    /\ UNCHANGED <<sourceAdded, tileIntensityMap, lastTiles, rendered,
                   notNormVars>>

\* fetch or response.json() rejects: the catch block logs
FetchTileDataError ==
    /\ inFlight > 0
    /\ inFlight' = inFlight - 1
    /\ UNCHANGED <<sourceAdded, tileIntensityMap, lastTiles, rendered,
                   notNormVars>>

NormNext ==
    \/ PollTimer
    \/ AddTiles
    \/ FetchTileDataOk
    \/ FetchTileDataNotOk
    \/ FetchTileDataError

NormSpec == NormInit /\ [][NormNext]_vars

\* C1: every intensity stored in tileIntensityMap lies in [0, 100], and when
\* the normalised map of counts is empty or all zero every stored intensity
\* is 0.
C1_IntensityInRange ==
    /\ \A id \in DOMAIN tileIntensityMap :
          LET v == tileIntensityMap[id]
          IN  v.den > 0 /\ 0 <= v.num /\ v.num <= 100 * v.den
    /\ (lastTiles # Pending) =>
          /\ DOMAIN tileIntensityMap = DOMAIN lastTiles[1]
          /\ (\A id \in DOMAIN lastTiles[1] : lastTiles[1][id] = 0) =>
                \A id \in DOMAIN tileIntensityMap :
                   tileIntensityMap[id].num = 0

\* a map of several counts, a zero among them, has been normalised
C1_Witness ==
    /\ lastTiles # Pending
    /\ Cardinality(DOMAIN lastTiles[1]) = 3
    /\ \E id \in DOMAIN lastTiles[1] : lastTiles[1][id] = 3
    /\ \E id \in DOMAIN lastTiles[1] : lastTiles[1][id] = 10
    /\ \E id \in DOMAIN tileIntensityMap : tileIntensityMap[id].num = 0

ScenarioCounts ==
    [ id \in ResponseKeys |->
        CASE id = TileId(0, 0) -> 10
          [] id = TileId(0, 1) -> 100
          [] id = TileId(1, 1) -> 0 ]

\* C2: with max the largest count of the response, each intensity equals
\* min(100, count/max*100) when max > 0 and 0 otherwise; a tile holding the
\* maximum gets exactly 100; {A:10, B:100, C:0} gives {A:10, B:100, C:0}.
C2_RelativeToMax ==
    (lastTiles # Pending) =>
        LET t    == lastTiles[1]
            max  == IF DOMAIN t = {} THEN 0
                    ELSE SetMax({ t[id] : id \in DOMAIN t })
        IN  /\ DOMAIN tileIntensityMap = DOMAIN t
            /\ \A id \in DOMAIN t :
                  LET v == tileIntensityMap[id]
                  IN  IF max > 0
                      THEN /\ v.den > 0
                           /\ v.num * max =
                                (IF t[id] * 100 <= 100 * max
                                 THEN t[id] * 100 ELSE 100 * max) * v.den
                           /\ (t[id] = max) => (v.num = 100 /\ v.den = 1)
                      ELSE v.num = 0
            /\ (t = ScenarioCounts) =>
                  \A id \in DOMAIN t :
                     /\ tileIntensityMap[id].num = t[id]
                     /\ tileIntensityMap[id].den = 1

\* the response {A:10, B:100, C:0} has been normalised
C2_Witness ==
    /\ lastTiles = Returned(ScenarioCounts)
    /\ tileIntensityMap[TileId(0, 1)] = Hundred
    /\ rendered # Pending

(***************************************************************************)
(* HomeScreen: formatTimeLabel, smoothHistory, buildTileDataFromApi        *)
(*                                                                         *)
(* A JavaScript array is a function on 0 .. length-1.  A Date is its       *)
(* getTime() in milliseconds; the local time zone is taken to be the one   *)
(* of the reference midnight.                                              *)
(***************************************************************************)
MaxRows        == 2     \* rows of one API response
MaxSampleCount == 2     \* largest `count` carried by a row

Length(array) == Cardinality(DOMAIN array)

\* n.toString().padStart(2, "0")
PadStart2(n) == IF n < 10 THEN "0" \o ToString(n) ELSE ToString(n)

formatTimeLabel(date) ==
    LET hours   == (date \div 3600000) % 24
        minutes == (date \div 60000) % 60
    IN  PadStart2(hours) \o ":" \o PadStart2(minutes)

\* Math.round of the quotient n / d of non-negative integers, d > 0
RoundQuotientDown(n, d) == n \div d

RoundQuotient(n, d) == (2 * n + d) \div (2 * d)

kernel == [ k \in 0..4 |-> CASE k = 0 -> 1 [] k = 1 -> 2 [] k = 2 -> 3
                             [] k = 3 -> 2 [] k = 4 -> 1 ]
radius == 2

\* zero-padded variant: an out-of-range neighbour counts as a 0 of full weight
RECURSIVE WeightedSumZeroPadded(_, _, _)
WeightedSumZeroPadded(points, i, k) ==
    IF k > radius THEN [ weightedSum |-> 0, weightTotal |-> 0 ]
    ELSE LET idx  == i + k
             rest == WeightedSumZeroPadded(points, i, k + 1)
         IN  [ weightedSum |-> rest.weightedSum
                 + (IF idx < 0 \/ idx >= Length(points) THEN 0
                    ELSE points[idx].value * kernel[k + radius]),
               weightTotal |-> rest.weightTotal + kernel[k + radius] ]

RECURSIVE WeightedSum(_, _, _)
WeightedSum(points, i, k) ==
    IF k > radius THEN [ weightedSum |-> 0, weightTotal |-> 0 ]
    ELSE LET idx  == i + k
             rest == WeightedSum(points, i, k + 1)
         IN  IF idx < 0 \/ idx >= Length(points) THEN rest
             ELSE [ weightedSum |-> rest.weightedSum
                                      + points[idx].value * kernel[k + radius],
                    weightTotal |-> rest.weightTotal + kernel[k + radius] ]

\* variant whose value is the weighted sum, not divided by the weights
smoothHistoryWeightedTotal(points) ==
    [ i \in DOMAIN points |->
        [ label |-> points[i].label,
          value |-> WeightedSum(points, i, -radius).weightedSum ] ]

\* variant keeping only the points that have a full window
smoothHistoryFullWindows(points) ==
    [ i \in 0..(Length(points) - 2 * radius - 1) |->
        LET w == WeightedSum(points, i + radius, -radius)
        IN  [ label |-> points[i + radius].label,
              value |-> RoundQuotient(w.weightedSum, w.weightTotal) ] ]

\* variant that returns the values without their labels
smoothHistoryUnlabelled(points) ==
    [ i \in DOMAIN points |->
        LET w == WeightedSum(points, i, -radius)
        IN  [ label |-> "",
              value |-> RoundQuotient(w.weightedSum, w.weightTotal) ] ]

smoothHistory(points) ==
    IF Length(points) = 0 THEN points
    ELSE [ i \in DOMAIN points |->
             LET w == WeightedSum(points, i, -radius)
             IN  [ label |-> points[i].label,
                   value |-> IF w.weightTotal > 0
                             THEN RoundQuotient(w.weightedSum, w.weightTotal)
                             ELSE points[i].value ] ]

minuteCount == 60

\* a row field holding a date string: absent (or empty), a string Date cannot
\* parse, or a string parsing to `ms`
AbsentField     == [ kind |-> "absent", ms |-> 0 ]
UnparsableField == [ kind |-> "unparsable", ms |-> 0 ]
DateField(ms)   == [ kind |-> "date", ms |-> ms ]
\* row.count: a number, or anything else
NumberCount(n)  == [ isNumber |-> TRUE, value |-> n ]
OtherCount      == [ isNumber |-> FALSE, value |-> 0 ]

\* row.created_at || row.last_update
CreatedAtRaw(row) ==
    IF row.created_at.kind # "absent" THEN row.created_at ELSE row.last_update

\* the row passes the three early returns of the forEach callback
RowAccepted(row, nowMs) ==
    LET createdAtRaw == CreatedAtRaw(row)
        windowStart  == nowMs - 60 * 60 * 1000
    IN  /\ createdAtRaw.kind # "absent"
        /\ row.count.isNumber
        /\ createdAtRaw.kind # "unparsable"
        /\ ~(createdAtRaw.ms < windowStart \/ createdAtRaw.ms > nowMs)

\* index computed for an accepted row
RowIndexUnclamped(row, nowMs) ==
    (CreatedAtRaw(row).ms - (nowMs - 60 * 60 * 1000)) \div 60000

RowIndex(row, nowMs) ==
    LET windowStart == nowMs - 60 * 60 * 1000
        index       == (CreatedAtRaw(row).ms - windowStart) \div 60000
    IN  IF index < 0 THEN 0
        ELSE IF index >= minuteCount THEN minuteCount - 1
        ELSE index

\* variant whose writes replace the bucket instead of adding to it
IngestRowOverwriting(row, nowMs, acc) ==
    IF ~RowAccepted(row, nowMs) THEN acc
    ELSE LET index == RowIndex(row, nowMs)
         IN  [ totals  |-> [ acc.totals EXCEPT ![index] = row.count.value ],
               samples |-> [ acc.samples EXCEPT ![index] = 1 ] ]

\* the body of rows.forEach(...) applied to one row
IngestRow(row, nowMs, acc) ==
    IF ~RowAccepted(row, nowMs) THEN acc
    ELSE LET index == RowIndex(row, nowMs)
         IN  [ totals  |-> [ acc.totals EXCEPT ![index] = @ + row.count.value ],
               samples |-> [ acc.samples EXCEPT ![index] = @ + 1 ] ]

\* rows.forEach(...) over rows lo .. hi in their order: the first half is
\* completed, then the second half runs on the arrays it left
RECURSIVE IngestRows(_, _, _, _, _)
IngestRows(rs, lo, hi, nowMs, acc) ==
    IF lo > hi THEN acc
    ELSE IF lo = hi THEN IngestRow(rs[lo], nowMs, acc)
    ELSE LET mid   == (lo + hi) \div 2
             first == IngestRows(rs, lo, mid, nowMs, acc)
         IN  IF DOMAIN first.samples = DOMAIN acc.samples
             THEN IngestRows(rs, mid + 1, hi, nowMs, first)
             ELSE first

\* value of bucket i before rounding is totals[i] / samples[i]
BucketValueTotal(total, sampleCount) == total

BucketValue(total, sampleCount) ==
    IF sampleCount > 0 THEN RoundQuotient(total, sampleCount) ELSE 0

\* variant with the comparison reversed
RECURSIVE PeakFromReversed(_, _, _)
PeakFromReversed(history, i, peakCount) ==
    IF i >= Length(history) THEN peakCount
    ELSE PeakFromReversed(history, i + 1,
                          IF history[i].value < peakCount THEN history[i].value
                          ELSE peakCount)

RECURSIVE PeakFrom(_, _, _)
PeakFrom(history, i, peakCount) ==
    IF i >= Length(history) THEN peakCount
    ELSE PeakFrom(history, i + 1,
                  IF history[i].value > peakCount THEN history[i].value
                  ELSE peakCount)

\* every local of the call at its return
buildTileDataFromApi(tileId, rs, nowMs) ==
    LET windowStart == nowMs - 60 * 60 * 1000
        zeros  == [ i \in 0..(minuteCount - 1) |-> 0 ]
        filled == IngestRows(rs, 1, Len(rs), nowMs, [ totals |-> zeros, samples |-> zeros ])
        raw    == [ i \in 0..(minuteCount - 1) |->
                      [ label |-> IF i = minuteCount - 1 THEN "Now"
                                  ELSE IF i % 10 = 0
                                  THEN formatTimeLabel(windowStart + i * 60000)
                                  ELSE "",
                        value |-> BucketValue(filled.totals[i],
                                              filled.samples[i]) ] ]
        history      == smoothHistory(raw)
        currentCount == IF Length(history) > 0
                        THEN history[Length(history) - 1].value ELSE 0
    IN  [ totals     |-> filled.totals,
          samples    |-> filled.samples,
          rawHistory |-> raw,
          result     |-> [ tileId       |-> tileId,
                           currentCount |-> currentCount,
                           peakCount    |-> PeakFrom(history, 0, currentCount),
                           history      |-> history ] ]

(***************************************************************************)
(* Inputs of buildTileDataFromApi                                          *)
(***************************************************************************)
\* 01:00:00.000 and 20:34:17.250 after the reference midnight
NowValues == { 3600000, 74057250 }

\* offsets from windowStart of the timestamps the rows carry
SampleOffsets == { -1, 0, 59999, 60000, 3599999, 3600000, 3600001 }
\* those at which a row carries every count of 0 .. MaxSampleCount
SameMinuteOffsets == { 0, 59999 }

RowsAt(nowMs) ==
    LET ws == nowMs - 60 * 60 * 1000
    IN  { [ created_at |-> DateField(ws + off), last_update |-> AbsentField,
            count |-> NumberCount(1) ] : off \in SampleOffsets }
        \cup
        { [ created_at |-> DateField(ws + off), last_update |-> AbsentField,
            count |-> NumberCount(c) ] :
              off \in SameMinuteOffsets, c \in 0..MaxSampleCount }
        \cup
        { [ created_at |-> AbsentField, last_update |-> DateField(ws + 60000),
            count |-> NumberCount(1) ],
          [ created_at |-> AbsentField, last_update |-> AbsentField,
            count |-> NumberCount(1) ],
          [ created_at |-> UnparsableField, last_update |-> DateField(ws),
            count |-> NumberCount(1) ],
          [ created_at |-> DateField(ws), last_update |-> AbsentField,
            count |-> OtherCount ] }

\* 61 rows of count 1 at one-minute offsets 0 .. 60 from windowStart
ScenarioRows(nowMs) ==
    [ k \in 1..61 |->
        [ created_at |-> DateField(nowMs - 60 * 60 * 1000 + (k - 1) * 60000),
          last_update |-> AbsentField, count |-> NumberCount(1) ] ]

RowLists(nowMs) ==
    UNION { [ 1..n -> RowsAt(nowMs) ] : n \in 0..MaxRows }
      \cup { ScenarioRows(nowMs) }

BuildInit ==
    /\ now \in NowValues
    /\ rows \in RowLists(now)
    /\ totals = Pending
    /\ samples = Pending
    /\ rawHistory = Pending
    /\ tileMockData = Pending
    /\ NotBuildIdle

\* buildTileDataFromApi(tile.tileId, rows)
BuildTileDataFromApi ==
    /\ tileMockData = Pending
    /\ LET call == buildTileDataFromApi(TileId(1, 1), rows, now)
       IN  /\ totals' = Returned(call.totals)
           /\ samples' = Returned(call.samples)
           /\ rawHistory' = Returned(call.rawHistory)
           /\ tileMockData' = Returned(call.result)
    /\ UNCHANGED <<rows, now, notBuildVars>>

BuildNext == BuildTileDataFromApi

BuildSpec == BuildInit /\ [][BuildNext]_vars

(***************************************************************************)
(* Properties of the minute histogram                                      *)
(***************************************************************************)
WindowStart == now - 3600000

\* row k carries a number and a parsable timestamp (its created_at, or its
\* last_update when it has no created_at)
RowIsSample(k) ==
    /\ rows[k].count.isNumber
    /\ \/ rows[k].created_at.kind = "date"
       \/ rows[k].created_at.kind = "absent" /\ rows[k].last_update.kind = "date"

RowTime(k) ==
    IF rows[k].created_at.kind = "date" THEN rows[k].created_at.ms
    ELSE rows[k].last_update.ms

InWindow(t) == WindowStart <= t /\ t <= now

\* floor((t - windowStart) / 60 s) clamped to [0, 59]
ClampedMinute(t) ==
    LET m == CHOOSE q \in -1..60 :
                \/ q = -1 /\ t < WindowStart
                \/ q = 60 /\ t >= WindowStart + 60 * 60000
                \/ /\ q \in 0..59
                   /\ WindowStart + q * 60000 <= t
                   /\ t < WindowStart + (q + 1) * 60000
    IN  IF m < 0 THEN 0 ELSE IF m > 59 THEN 59 ELSE m

\* the rows that belong in bucket i
RowsOfBucket(i) ==
    { k \in DOMAIN rows :
        RowIsSample(k) /\ InWindow(RowTime(k)) /\ ClampedMinute(RowTime(k)) = i }

RECURSIVE SumOfCounts(_)
SumOfCounts(ks) ==
    IF ks = {} THEN 0
    ELSE LET k == CHOOSE x \in ks : TRUE
         IN  rows[k].count.value + SumOfCounts(ks \ {k})

\* C9: a row with windowStart <= t <= now goes to bucket
\* floor((t - windowStart)/60s) clamped to [0, 59] (t = windowStart to bucket
\* 0, t = now to bucket 59); a row with t < windowStart or t > now touches no
\* bucket.
C9_BucketPlacement ==
    (tileMockData # Pending) =>
        /\ \A i \in 0..59 :
              /\ samples[1][i] = Cardinality(RowsOfBucket(i))
              /\ totals[1][i] = SumOfCounts(RowsOfBucket(i))
        /\ \A k \in DOMAIN rows :
              (RowIsSample(k) /\ RowTime(k) = WindowStart) => samples[1][0] >= 1
        /\ \A k \in DOMAIN rows :
              (RowIsSample(k) /\ RowTime(k) = now) => samples[1][59] >= 1

\* a row stamped `now` sits in bucket 59 and a row outside the window was
\* dropped
C9_Witness ==
    /\ tileMockData # Pending
    /\ Len(rows) = 2
    /\ \E k \in DOMAIN rows : RowIsSample(k) /\ RowTime(k) = now
    /\ \E k \in DOMAIN rows : RowIsSample(k) /\ ~InWindow(RowTime(k))
    /\ samples[1][59] = 1
    /\ \A i \in 0..58 : samples[1][i] = 0

\* C10 as stated: the value a bucket hands to smoothing is exactly
\* sum/sampleCount when sampleCount > 0 and 0 when the bucket is empty.
C10_ExactAverage ==
    (tileMockData # Pending) =>
        \A i \in 0..59 :
           IF samples[1][i] > 0
           THEN rawHistory[1][i].value * samples[1][i] = totals[1][i]
           ELSE rawHistory[1][i].value = 0

\* C10 as amended: the value is sum/sampleCount rounded to the nearest
\* integer (halves upwards) when sampleCount > 0 and 0 when the bucket is
\* empty; it is never the running total: rows of one bucket that all carry
\* c give c.
C10_RoundedAverage ==
    (tileMockData # Pending) =>
        \A i \in 0..59 :
           LET v == rawHistory[1][i].value
               n == samples[1][i]
           IN  /\ n = Cardinality(RowsOfBucket(i))
               /\ IF n > 0
                  THEN /\ 2 * n * v - n <= 2 * totals[1][i]
                       /\ 2 * totals[1][i] < 2 * n * v + n
                  ELSE v = 0
               /\ \A c \in 0..(MaxSampleCount + 1) :
                     (n > 0 /\ \A k \in RowsOfBucket(i) : rows[k].count.value = c)
                        => v = c

\* two rows of the same minute, both carrying 2, gave the bucket value 2
C10_Witness ==
    /\ tileMockData # Pending
    /\ \E i \in 0..59 :
          /\ samples[1][i] = 2
          /\ totals[1][i] = 4
          /\ rawHistory[1][i].value = 2

(***************************************************************************)
(* Calls of smoothHistory on one array                                     *)
(***************************************************************************)
MaxSeries     == 5      \* length of the array passed to smoothHistory
MaxPointValue == 2      \* largest value of a point
MaxCalls      == 2      \* calls made on the same array

\* in-place variant: each smoothed value is written back into points[i]
\* before the next index is computed
RECURSIVE SmoothInPlaceFrom(_, _)
SmoothInPlaceFrom(points, i) ==
    IF i >= Length(points) THEN points
    ELSE LET w == WeightedSum(points, i, -radius)
         IN  SmoothInPlaceFrom(
               [ points EXCEPT ![i].value =
                   RoundQuotient(w.weightedSum, w.weightTotal) ], i + 1)

SmoothEffectInPlace(points) ==
    [ input  |-> SmoothInPlaceFrom(points, 0),
      output |-> SmoothInPlaceFrom(points, 0) ]

\* what a call does to the array it is given and what it returns: the
\* results are pushed to the fresh array `smoothed`, `points` is only read
SmoothEffect(points) ==
    [ input |-> points, output |-> smoothHistory(points) ]

\* labels as buildTileDataFromApi lays them out, every 2nd bucket timed
SeriesLabel(i, n) ==
    IF i = n - 1 THEN "Now"
    ELSE IF i % 2 = 0 THEN formatTimeLabel(i * 60000) ELSE ""

SeriesOfLength(n) ==
    { [ i \in 0..(n - 1) |-> [ label |-> SeriesLabel(i, n), value |-> vs[i] ] ] :
        vs \in [ 0..(n - 1) -> 0..MaxPointValue ] }

SmoothInit ==
    /\ smoothInput \in UNION { SeriesOfLength(n) : n \in 0..MaxSeries }
    /\ smoothed = Pending
    /\ smoothCalls = 0
    /\ NotSmoothIdle

\* smoothHistory(rawHistory)
SmoothHistory ==
    /\ smoothCalls < MaxCalls
    /\ LET effect == SmoothEffect(smoothInput)
       IN  /\ smoothInput' = effect.input
           /\ smoothed' = Returned(effect.output)
    /\ smoothCalls' = smoothCalls + 1
    /\ UNCHANGED notSmoothVars

SmoothNext == SmoothHistory

SmoothSpec == SmoothInit /\ [][SmoothNext]_vars

\* weight of offset k in the triangular kernel
TriangleWeight(k) == IF k < 0 THEN 3 + k ELSE 3 - k

\* C11: for an input of n >= 1 points the result has n points and point i is
\* the rounded quotient of the sums of w[k]*v[i+k] and of w[k] over the
\* offsets k in -2..2 with 0 <= i+k < n, w = [1,2,3,2,1]; neighbours out of
\* range are in neither sum.
C11_RenormalisedKernel ==
    (smoothed # Pending) =>
        LET n   == Length(smoothInput)
            out == smoothed[1]
        IN  /\ DOMAIN out = 0..(n - 1)
            /\ \A i \in 0..(n - 1) :
                  LET ks == { k \in -2..2 : 0 <= i + k /\ i + k < n }
                      Term(k) == IF k \in ks
                                 THEN TriangleWeight(k) * smoothInput[i + k].value
                                 ELSE 0
                      Wgt(k)  == IF k \in ks THEN TriangleWeight(k) ELSE 0
                      S == Term(-2) + Term(-1) + Term(0) + Term(1) + Term(2)
                      W == Wgt(-2) + Wgt(-1) + Wgt(0) + Wgt(1) + Wgt(2)
                      v == out[i].value
                  IN  \* v = round(S / W): v - 1/2 <= S/W < v + 1/2
                      /\ 2 * W * v - W <= 2 * S
                      /\ 2 * S < 2 * W * v + W

\* an array too short for a full window anywhere was smoothed to a value
\* that zero-padding would not give
C11_Witness ==
    /\ smoothed # Pending
    /\ Length(smoothInput) = 2
    /\ smoothInput[0].value = 2 /\ smoothInput[1].value = 2
    /\ smoothed[1][0].value = 2 /\ smoothed[1][1].value = 2

C13_SixtyBuckets ==
    (tileMockData # Pending) =>
        /\ DOMAIN tileMockData[1].history = 0..59
        /\ Length(tileMockData[1].history) = 60
        /\ DOMAIN rawHistory[1] = 0..59

\* the 61-row scenario has been processed
C13_Witness ==
    /\ tileMockData # Pending
    /\ Len(rows) = 61
    /\ samples[1][59] = 2
    /\ Length(tileMockData[1].history) = 60

\* C14: currentCount is the smoothed value of the last bucket, peakCount the
\* largest smoothed value of the 60 buckets; the 61-row scenario gives
\* peakCount >= 1.
C14_CurrentAndPeak ==
    (tileMockData # Pending) =>
        LET r == tileMockData[1]
        IN  /\ r.currentCount = r.history[59].value
            /\ r.peakCount = SetMax({ r.history[i].value : i \in 0..59 })
            /\ (Len(rows) = 61) => r.peakCount >= 1

\* a window whose peak lies above the current value and below the largest
\* value before smoothing
C14_Witness ==
    /\ tileMockData # Pending
    /\ tileMockData[1].currentCount = 0
    /\ tileMockData[1].peakCount = 1
    /\ tileMockData[1].history[1].value = 1
    /\ rawHistory[1][0].value = 2

Digit == << "0", "1", "2", "3", "4", "5", "6", "7", "8", "9" >>
TwoDigits(n) == Digit[(n \div 10) + 1] \o Digit[(n % 10) + 1]
\* HH:MM of the time t milliseconds after the reference midnight
ClockLabel(t) ==
    TwoDigits((t \div 3600000) % 24) \o ":" \o TwoDigits((t \div 60000) % 60)

\* C15: the labels of the returned history are 'Now' on bucket 59 and only
\* there, the HH:MM time of the bucket's start on buckets 0, 10, .. 50 and
\* the empty string elsewhere; smoothing keeps each bucket's label.
C15_Labels ==
    (tileMockData # Pending) =>
        \A i \in 0..59 :
           LET label == tileMockData[1].history[i].label
           IN  /\ label = rawHistory[1][i].label
               /\ (label = "Now") <=> (i = 59)
               /\ (i % 10 = 0) => label = ClockLabel(WindowStart + i * 60000)
               /\ (i # 59 /\ i % 10 # 0) => label = ""

\* a window starting at 19:34 got its labels while smoothing changed values
C15_Witness ==
    /\ tileMockData # Pending
    /\ tileMockData[1].history[0].label = "19:34"
    /\ tileMockData[1].history[50].label = "20:24"
    /\ tileMockData[1].history[59].label = "Now"
    /\ \E i \in 0..59 :
          tileMockData[1].history[i].value # rawHistory[1][i].value

(***************************************************************************)
(* Properties of the list returned by generateRouteIndicators              *)
(***************************************************************************)
\* the (station, entrance) pairs of the adjacency map whose station and
\* entrance are both among the inputs
PresentPairs ==
    { << stations[i].id, entrances[j].id >> :
        i \in DOMAIN stations, j \in DOMAIN entrances }
    \cap
    UNION { { << s, STATION_ENTRANCE_MAP[s][k] >> :
                k \in DOMAIN STATION_ENTRANCE_MAP[s] } :
            s \in DOMAIN STATION_ENTRANCE_MAP }

StationPosition(id) == CHOOSE i \in DOMAIN stations : stations[i].id = id

AdjacencyPosition(pair) ==
    CHOOSE k \in DOMAIN STATION_ENTRANCE_MAP[pair[1]] :
        STATION_ENTRANCE_MAP[pair[1]][k] = pair[2]

\* C16: generateRouteIndicators returns exactly one link for every
\* (station, entrance) pair of the adjacency map whose station and entrance
\* are both among the inputs, ordered by the station's place in the input and
\* then by the entrance's place in the station's adjacency list; stations
\* without an adjacency list and entrances missing from the input add nothing
\* and do not stop the later ones.
C16_OneLinkPerPair ==
    (indicators # Pending) =>
        LET links == indicators[1]
        IN  /\ { links[n].id : n \in DOMAIN links } = PresentPairs
            /\ Len(links) = Cardinality(PresentPairs)
            /\ \A a, b \in DOMAIN links :
                  a < b =>
                     \/ StationPosition(links[a].id[1])
                          < StationPosition(links[b].id[1])
                     \/ /\ links[a].id[1] = links[b].id[1]
                        /\ AdjacencyPosition(links[a].id)
                             < AdjacencyPosition(links[b].id)

\* a station without an adjacency list came first and the next station still
\* got its two links, in adjacency order
C16_Witness ==
    /\ indicators # Pending
    /\ Len(stations) = 2
    /\ stations[1].id \notin DOMAIN STATION_ENTRANCE_MAP
    /\ Len(indicators[1]) = 2
    /\ indicators[1][1].id = << "ubahn-theresienwiese", "entrance-main" >>
    /\ indicators[1][2].id = << "ubahn-theresienwiese", "entrance-north-east" >>

(***************************************************************************)
(* HomeScreen: decodeWkbPoint                                              *)
(*                                                                         *)
(* A hex string is the sequence of its characters, the buffer an array of  *)
(* bytes indexed from 0, and a double the 8 bytes of its IEEE-754 pattern, *)
(* most significant byte first.                                            *)
(***************************************************************************)
MaxExtraBytes == 1      \* bytes that follow the second coordinate
MaxFriends    == 2      \* friends of a /friends/map response

HexChars == << "0", "1", "2", "3", "4", "5", "6", "7",
               "8", "9", "A", "B", "C", "D", "E", "F" >>

\* parseInt(c, 16) of one hex character
HexDigit(c) == (CHOOSE i \in DOMAIN HexChars : HexChars[i] = c) - 1

\* new ArrayBuffer(wkbHex.length / 2) filled by
\* bytes[i / 2] = parseInt(wkbHex.substr(i, 2), 16); the write of a last
\* single character falls outside the buffer
bytesOf(wkbHex) ==
    [ i \in 0..((Len(wkbHex) \div 2) - 1) |->
        16 * HexDigit(wkbHex[2 * i + 1]) + HexDigit(wkbHex[2 * i + 2]) ]

\* bytes[offset] as operand of | and <<: undefined counts as 0
ByteOrZero(bytes, offset) ==
    IF offset \in DOMAIN bytes THEN bytes[offset] ELSE 0

\* b << 24 as a signed 32-bit integer
ShiftLeft24(b) == (IF b >= 128 THEN b - 256 ELSE b) * 16777216

readUInt32(bytes, offset, isLittleEndian) ==
    IF isLittleEndian
    THEN ByteOrZero(bytes, offset)
           + ByteOrZero(bytes, offset + 1) * 256
           + ByteOrZero(bytes, offset + 2) * 65536
           + ShiftLeft24(ByteOrZero(bytes, offset + 3))
    ELSE ShiftLeft24(ByteOrZero(bytes, offset))
           + ByteOrZero(bytes, offset + 1) * 65536
           + ByteOrZero(bytes, offset + 2) * 256
           + ByteOrZero(bytes, offset + 3)

\* geomType & 0x20000000 is truthy
HasSrid(geomType) == (geomType % 1073741824) \div 536870912 = 1

\* variant that reads missing bytes as 0 instead of throwing
readDoubleZeroFilled(bytes, offset, isLittleEndian) ==
    [ threw |-> FALSE,
      value |-> [ k \in 1..8 |->
                    IF isLittleEndian THEN ByteOrZero(bytes, offset + 8 - k)
                    ELSE ByteOrZero(bytes, offset + k - 1) ] ]

\* variant that reads every double most significant byte first
readDoubleBigEndian(bytes, offset, isLittleEndian) ==
    IF offset + 8 > Length(bytes)
    THEN [ threw |-> TRUE, value |-> << >> ]
    ELSE [ threw |-> FALSE,
           value |-> [ k \in 1..8 |-> bytes[offset + k - 1] ] ]

\* new DataView(buffer, offset, 8) throws a RangeError when the 8 bytes do not
\* lie in the buffer; getFloat64(0, isLittleEndian) otherwise
readDouble(bytes, offset, isLittleEndian) ==
    IF offset + 8 > Length(bytes)
    THEN [ threw |-> TRUE, value |-> << >> ]
    ELSE [ threw |-> FALSE,
           value |-> [ k \in 1..8 |->
                         IF isLittleEndian THEN bytes[offset + 8 - k]
                         ELSE bytes[offset + k - 1] ] ]

\* the values decodeWkbPoint returns: null, or [longitude, latitude]
NullCoords == [ isNull |-> TRUE, longitude |-> << >>, latitude |-> << >> ]
Coords(lon, lat) == [ isNull |-> FALSE, longitude |-> lon, latitude |-> lat ]

decodeWkbPoint(wkbHex) ==
    LET bytes          == bytesOf(wkbHex)
        isLittleEndian == 0 \in DOMAIN bytes /\ bytes[0] = 1
        geomType       == readUInt32(bytes, 1, isLittleEndian)
        offset         == IF HasSrid(geomType) THEN 1 + 4 + 4 ELSE 1 + 4
        longitude      == readDouble(bytes, offset, isLittleEndian)
        latitude       == readDouble(bytes, offset + 8, isLittleEndian)
    IN  IF longitude.threw \/ latitude.threw THEN NullCoords
        ELSE Coords(longitude.value, latitude.value)

(***************************************************************************)
(* HomeScreen: the friend loop of fetchFriends                             *)
(***************************************************************************)
\* friend.position: missing, or a hex string
AbsentPosition == [ present |-> FALSE, hex |-> << >> ]
Position(hex)  == [ present |-> TRUE, hex |-> hex ]

\* the names kept under FRIEND_NAMES_STORAGE_KEY
friendNames == [ id \in { "u2" } |-> "Resi" ]

\* friendNames[friend.user_id] || `Friend ${friend.user_id.substring(0, 8)}`
\* for the ids of at most 8 characters used here
NameOf(user_id) ==
    IF user_id \in DOMAIN friendNames THEN friendNames[user_id]
    ELSE "Friend " \o user_id

\* variant that leaves the loop at the first friend it cannot place
RECURSIVE friendsWithCoordsStopAtFailure(_, _)
friendsWithCoordsStopAtFailure(friendList, k) ==
    IF k > Len(friendList) THEN << >>
    ELSE LET friend == friendList[k]
         IN  IF ~friend.position.present \/ friend.position.hex = << >>
             THEN << >>
             ELSE LET coords == decodeWkbPoint(friend.position.hex)
                  IN  IF coords.isNull THEN << >>
                      ELSE << [ user_id   |-> friend.user_id,
                                position  |-> friend.position,
                                longitude |-> coords.longitude,
                                latitude  |-> coords.latitude,
                                name      |-> NameOf(friend.user_id) ] >>
                             \o friendsWithCoordsStopAtFailure(friendList, k + 1)

\* for (const friend of data.friends) { ... } from friend k on
RECURSIVE friendsWithCoordsFrom(_, _)
friendsWithCoordsFrom(friendList, k) ==
    IF k > Len(friendList) THEN << >>
    ELSE LET friend == friendList[k]
             rest   == friendsWithCoordsFrom(friendList, k + 1)
         IN  IF ~friend.position.present \/ friend.position.hex = << >>
             THEN rest
             ELSE LET coords == decodeWkbPoint(friend.position.hex)
                  IN  IF coords.isNull THEN rest
                      ELSE << [ user_id   |-> friend.user_id,
                                position  |-> friend.position,
                                longitude |-> coords.longitude,
                                latitude  |-> coords.latitude,
                                name      |-> NameOf(friend.user_id) ] >>
                             \o rest

(***************************************************************************)
(* Inputs of decodeWkbPoint and of the friend loop                         *)
(***************************************************************************)
Lon11 == << 64, 39, 25, 53, 81, 26, 164, 199 >>     \* 11.5492349
LonNeg == << 192, 4, 0, 0, 0, 0, 0, 0 >>            \* -2.5
Lat48 == << 64, 72, 16, 208, 67, 121, 210, 84 >>    \* 48.1313557
LonPatterns == { Lon11, LonNeg }
LatPatterns == { Lat48 }

\* geometry-type words, most significant byte first: Point, Point with SRID,
\* LineString, Polygon with SRID, PointZ with SRID
PointWord     == << 0, 0, 0, 1 >>
PointSridWord == << 32, 0, 0, 1 >>
TypeWords ==
    { PointWord, PointSridWord, << 0, 0, 0, 2 >>, << 32, 0, 0, 3 >>,
      << 160, 0, 0, 1 >> }

Srid4326 == << 0, 0, 16, 230 >>

Reversed(field) == [ k \in 1..Len(field) |-> field[Len(field) + 1 - k] ]

\* the bytes of a field in byte order `order` (0 = big, 1 = little)
InOrder(order, field) == IF order = 1 THEN Reversed(field) ELSE field

\* the encoding decodeWkbPoint is written for: order byte, type word, SRID
\* when the word carries 0x20000000, X, Y
EncodeWkb(order, typeWord, lon, lat) ==
    << order >> \o InOrder(order, typeWord)
      \o (IF (typeWord[1] \div 32) % 2 = 1 THEN InOrder(order, Srid4326)
          ELSE << >>)
      \o InOrder(order, lon) \o InOrder(order, lat)

\* the hex string of a byte sequence
ToHex(byteSeq) ==
    [ k \in 1..(2 * Len(byteSeq)) |->
        IF k % 2 = 1 THEN HexChars[(byteSeq[(k + 1) \div 2] \div 16) + 1]
        ELSE HexChars[(byteSeq[k \div 2] % 16) + 1] ]

Zeros(n) == [ k \in 1..n |-> 0 ]

\* every encoding, followed by up to MaxExtraBytes bytes, cut anywhere
WkbInputs ==
    UNION { { SubSeq(ToHex(EncodeWkb(order, typeWord, lon, lat) \o Zeros(extra)),
                     1, n) :
                n \in 0..(2 * (Len(EncodeWkb(order, typeWord, lon, lat)) + extra)) } :
            order \in {0, 1}, typeWord \in TypeWords,
            lon \in LonPatterns, lat \in LatPatterns,
            extra \in 0..MaxExtraBytes }

\* the 21-byte little-endian encoding of (11.5492349, 48.1313557)
ScenarioHex == ToHex(EncodeWkb(1, PointWord, Lon11, Lat48))

\* responses of up to MaxFriends friends: a position is missing, is `own` or
\* is ScenarioHex
FriendLists(own) ==
    UNION { { [ k \in 1..n |-> [ user_id  |-> "u" \o ToString(k),
                                 position |-> ps[k] ] ] :
                ps \in [ 1..n -> { AbsentPosition, Position(own),
                                   Position(ScenarioHex) } ] } :
            n \in 0..MaxFriends }

DecodeInit ==
    /\ wkbInput \in WkbInputs
    /\ decoded = Pending
    /\ friendsData \in FriendLists(wkbInput)
    /\ friendsWithCoords = Pending
    /\ NotDecodeIdle

\* decodeWkbPoint(wkbInput)
DecodeWkbPoint ==
    /\ decoded = Pending
    /\ decoded' = Returned(decodeWkbPoint(wkbInput))
    /\ UNCHANGED <<wkbInput, friendsData, friendsWithCoords, notDecodeVars>>

\* fetchFriends on a response with status "success": the loop over
\* data.friends, then setFriends(friendsWithCoords)
FetchFriends ==
    /\ friendsWithCoords = Pending
    /\ friendsWithCoords' = Returned(friendsWithCoordsFrom(friendsData, 1))
    /\ UNCHANGED <<wkbInput, decoded, friendsData, notDecodeVars>>

DecodeNext == DecodeWkbPoint \/ FetchFriends

DecodeSpec == DecodeInit /\ [][DecodeNext]_vars

(***************************************************************************)
(* Properties of decodeWkbPoint                                            *)
(***************************************************************************)
ByteCount(hex) == Len(hex) \div 2

\* byte i of the buffer of `hex`, counted from 0
ByteAt(hex, i) == 16 * HexDigit(hex[2 * i + 1]) + HexDigit(hex[2 * i + 2])

LittleEndianInput(hex) == ByteCount(hex) >= 1 /\ ByteAt(hex, 0) = 1

\* bit 0x20000000 of the type word is set: bit 5 of its most significant
\* byte, which is byte 4 in little-endian and byte 1 in big-endian order
SridFlagged(hex) ==
    /\ ByteCount(hex) >= 5
    /\ LET top == IF LittleEndianInput(hex) THEN ByteAt(hex, 4)
                  ELSE ByteAt(hex, 1)
       IN  (top \div 32) % 2 = 1

\* the buffer cannot hold the header and both coordinates
TooShort(hex) ==
    \/ ByteCount(hex) < 21
    \/ SridFlagged(hex) /\ ByteCount(hex) < 25

ShownIds == IF friendsWithCoords = Pending THEN {}
            ELSE { friendsWithCoords[1][k].user_id :
                     k \in DOMAIN friendsWithCoords[1] }

\* C17: a buffer of fewer than 21 bytes, or of fewer than 25 bytes with the
\* SRID flag set, the empty buffer included, makes decodeWkbPoint return null
\* and never a coordinate pair; fetchFriends leaves a friend with such a
\* position out.
C17_ShortBufferIsNull ==
    /\ (decoded # Pending /\ TooShort(wkbInput)) => decoded[1] = NullCoords
    /\ (friendsWithCoords # Pending) =>
          \A k \in DOMAIN friendsData :
             (friendsData[k].position.present
                /\ TooShort(friendsData[k].position.hex))
                => friendsData[k].user_id \notin ShownIds

\* a 24-byte buffer with the SRID flag returned null and the friend carrying
\* it was left out while the other one was shown
C17_Witness ==
    /\ decoded = Returned(NullCoords)
    /\ ByteCount(wkbInput) = 24
    /\ SridFlagged(wkbInput)
    /\ friendsWithCoords # Pending
    /\ Len(friendsData) = 2
    /\ friendsData[1].position = Position(wkbInput)
    /\ ShownIds = { "u2" }

\* the geometry kind of the type word: its least significant byte, which is
\* byte 1 in little-endian and byte 4 in big-endian order
GeometryKind(hex) ==
    IF LittleEndianInput(hex) THEN ByteAt(hex, 1) ELSE ByteAt(hex, 4)

\* C18: on a buffer long enough whose type word denotes a geometry other than
\* Point, decodeWkbPoint gives an error outcome and no (longitude, latitude)
\* pair.
C18_NonPointRejected ==
    (decoded # Pending /\ ~TooShort(wkbInput) /\ GeometryKind(wkbInput) # 1)
        => decoded[1].isNull

\* the 8-byte field at byte offset `at`, most significant byte first
FieldAt(hex, at) ==
    [ k \in 1..8 |-> IF LittleEndianInput(hex) THEN ByteAt(hex, at + 8 - k)
                     ELSE ByteAt(hex, at + k - 1) ]

\* C19: byte 0 selects the byte order (0 = big, 1 = little), the type word at
\* offset 1 is read in that order, longitude and latitude are the 8-byte
\* fields at offsets 5 and 13 when bit 0x20000000 of the type word is clear
\* and at offsets 9 and 17 when it is set; decoding the encoding of a point
\* gives that point back, in both byte orders.
C19_Layout ==
    (decoded # Pending /\ ~TooShort(wkbInput)) =>
        /\ decoded[1] =
              IF SridFlagged(wkbInput)
              THEN Coords(FieldAt(wkbInput, 9), FieldAt(wkbInput, 17))
              ELSE Coords(FieldAt(wkbInput, 5), FieldAt(wkbInput, 13))
        /\ \A order \in {0, 1}, typeWord \in TypeWords,
              lon \in LonPatterns, lat \in LatPatterns :
              wkbInput = ToHex(EncodeWkb(order, typeWord, lon, lat))
                 => decoded[1] = Coords(lon, lat)

\* the 25-byte big-endian encoding of (11.5492349, 48.1313557) with an SRID
\* was decoded to that point
C19_Witness ==
    /\ wkbInput = ToHex(EncodeWkb(0, PointSridWord, Lon11, Lat48))
    /\ ByteCount(wkbInput) = 25
    /\ decoded = Returned(Coords(Lon11, Lat48))

(***************************************************************************)
(* Malformed rows and friends in one run                                   *)
(***************************************************************************)
DropNow == 3600000

\* two well-formed rows and a row of each malformed kind
DropRows ==
    { [ created_at |-> DateField(DropNow - 3600000),
        last_update |-> AbsentField, count |-> NumberCount(1) ],
      [ created_at |-> AbsentField,
        last_update |-> DateField(DropNow), count |-> NumberCount(2) ],
      [ created_at |-> AbsentField, last_update |-> AbsentField,
        count |-> NumberCount(1) ],
      [ created_at |-> DateField(DropNow), last_update |-> AbsentField,
        count |-> OtherCount ],
      [ created_at |-> UnparsableField, last_update |-> DateField(DropNow),
        count |-> NumberCount(1) ],
      [ created_at |-> AbsentField, last_update |-> UnparsableField,
        count |-> NumberCount(2) ] }

\* ScenarioHex without its last byte
UndecodableHex == SubSeq(ScenarioHex, 1, 40)

DropInit ==
    /\ now = DropNow
    /\ rows \in UNION { [ 1..n -> DropRows ] : n \in 0..MaxRows }
    /\ totals = Pending
    /\ samples = Pending
    /\ rawHistory = Pending
    /\ tileMockData = Pending
    /\ wkbInput = << >>
    /\ decoded = Pending
    /\ friendsData \in FriendLists(UndecodableHex)
    /\ friendsWithCoords = Pending
    /\ RouteIdle /\ GridIdle /\ NormIdle /\ SmoothIdle /\ ScanIdle /\ ShareIdle /\ CardIdle /\ GeneratedIdle /\ MessageIdle

DropNext == BuildTileDataFromApi \/ FetchFriends

DropSpec == DropInit /\ [][DropNext]_vars

\* the row has no timestamp, a count that is no number, or a date that does
\* not parse
Malformed(row) ==
    \/ row.created_at.kind = "absent" /\ row.last_update.kind = "absent"
    \/ ~row.count.isNumber
    \/ row.created_at.kind = "unparsable"
    \/ row.created_at.kind = "absent" /\ row.last_update.kind = "unparsable"

WellFormedRows == SelectSeq(rows, LAMBDA row : ~Malformed(row))

RECURSIVE SamplesBelow(_)
SamplesBelow(i) == IF i = 0 THEN 0 ELSE samples[1][i - 1] + SamplesBelow(i - 1)

\* the friends whose position is present and long enough to decode
Decodable(friend) ==
    friend.position.present /\ ~TooShort(friend.position.hex)

\* C20: a row with no timestamp, a non-numeric count or an unparsable date
\* leaves every bucket and the result as if it were absent, and the other
\* rows are still aggregated; a friend whose position is missing or does not
\* decode is left out while every other friend is decoded and shown, in the
\* order of the response.
C20_DroppedInIsolation ==
    /\ (tileMockData # Pending) =>
          LET clean == buildTileDataFromApi(TileId(1, 1), WellFormedRows, now)
          IN  /\ totals[1] = clean.totals
              /\ samples[1] = clean.samples
              /\ tileMockData[1] = clean.result
              /\ SamplesBelow(60) =
                    Cardinality({ k \in DOMAIN rows :
                                    ~Malformed(rows[k]) /\ InWindow(RowTime(k)) })
    /\ (friendsWithCoords # Pending) =>
          LET shown    == friendsWithCoords[1]
              expected == SelectSeq(friendsData, Decodable)
          IN  /\ Len(shown) = Len(expected)
              /\ \A k \in DOMAIN shown :
                    /\ shown[k].user_id = expected[k].user_id
                    /\ shown[k].position = expected[k].position
                    /\ Len(shown[k].longitude) = 8
                    /\ Len(shown[k].latitude) = 8

\* a malformed row came before a well-formed one, which was counted, and an
\* undecodable position came before a decodable one, which was shown
C20_Witness ==
    /\ tileMockData # Pending
    /\ Len(rows) = 2
    /\ Malformed(rows[1])
    /\ ~Malformed(rows[2])
    /\ SamplesBelow(60) = 1
    /\ friendsWithCoords # Pending
    /\ Len(friendsData) = 2
    /\ friendsData[1].position = Position(UndecodableHex)
    /\ ShownIds = { "u2" }

(***************************************************************************)
(* HomeScreen -> map page: updateTileData messages                         *)
(***************************************************************************)
MaxQueued == 2      \* messages posted and not yet handled

\* the two sources whose feature state the handler writes
DensitySources == { "oktoberfest-tiles", "oktoberfest-points" }

\* initialTiles of the focus effect: 0 for every feature with an id
InitialTiles ==
    [ id \in { oktoberfestTiles[i].id : i \in DOMAIN oktoberfestTiles } |-> 0 ]

\* data.tiles of a /map response: at most one key, a tile of the grid or
\* "tile_9_9", which is no tile
MapTileKeys   == { TileId(0, 0), TileId(1, 1), "tile_9_9" }
MapTileCounts == { 0, 5 }
MapTiles ==
    UNION { [ keys -> MapTileCounts ] :
              keys \in { k \in SUBSET MapTileKeys : Cardinality(k) <= 1 } }

\* variant that writes only the tiles the message mentions
updateTileDataMentionedOnly(state, tiles) ==
    [ source \in DensitySources |->
        [ id \in DOMAIN state[source] \cup (DOMAIN tiles \cap TileIds) |->
            IF id \in DOMAIN tiles THEN tiles[id] ELSE state[source][id] ] ]

\* the 'updateTileData' branch of handleMessage: for every feature with a
\* tileId, count = incomingTiles[id] || 0 is set as density on both sources
updateTileData(state, tiles) ==
    LET ids == { oktoberfestTiles[i].properties.tileId :
                   i \in DOMAIN oktoberfestTiles }
    IN  [ source \in DensitySources |->
            [ id \in DOMAIN state[source] \cup ids |->
                IF id \in ids
                THEN IF id \in DOMAIN tiles /\ tiles[id] # 0 THEN tiles[id]
                     ELSE 0
                ELSE state[source][id] ] ]

MessageInit ==
    /\ focused = FALSE
    /\ webViewMessages = << >>
    /\ featureState = [ source \in DensitySources |-> << >> ]
    /\ incomingTiles = Pending
    /\ NotMessageIdle

\* the focus effect of HomeScreen: mapRef.current?.updateTileData(initialTiles)
FocusEffect ==
    /\ Len(webViewMessages) < MaxQueued
    /\ focused' = TRUE
    /\ webViewMessages' = Append(webViewMessages, InitialTiles)
    /\ UNCHANGED <<featureState, incomingTiles, notMessageVars>>

\* fetchMapData, started by the focus effect or its 30 s timer, receives a
\* response with data.tiles and posts it
FetchMapData ==
    /\ focused
    /\ Len(webViewMessages) < MaxQueued
    /\ \E tiles \in MapTiles :
          webViewMessages' = Append(webViewMessages, tiles)
    /\ UNCHANGED <<focused, featureState, incomingTiles, notMessageVars>>

\* handleMessage on the oldest posted message
HandleMessage ==
    /\ webViewMessages # << >>
    /\ featureState' = updateTileData(featureState, Head(webViewMessages))
    /\ incomingTiles' = Returned(Head(webViewMessages))
    /\ webViewMessages' = Tail(webViewMessages)
    /\ UNCHANGED <<focused, notMessageVars>>

MessageNext == FocusEffect \/ FetchMapData \/ HandleMessage

MessageSpec == MessageInit /\ [][MessageNext]_vars

AcceptedRows ==
    { k \in DOMAIN rows : RowIsSample(k) /\ InWindow(RowTime(k)) }

RECURSIVE TotalsBelow(_)
TotalsBelow(i) == IF i = 0 THEN 0 ELSE totals[1][i - 1] + TotalsBelow(i - 1)

\* C22: no update of a bucket is lost: the sample counts of the 60 buckets
\* add up to the number of accepted rows, the sums add up to the total of
\* their counts, and every accepted row is counted in exactly one bucket.
C22_NoLostUpdate ==
    (tileMockData # Pending) =>
        /\ SamplesBelow(60) = Cardinality(AcceptedRows)
        /\ TotalsBelow(60) = SumOfCounts(AcceptedRows)
        /\ \A k \in AcceptedRows :
              Cardinality({ i \in 0..59 : k \in RowsOfBucket(i) }) = 1
        /\ \A i \in 0..59 : samples[1][i] = Cardinality(RowsOfBucket(i))

\* two rows of the same minute were both added to bucket 0
C22_Witness ==
    /\ tileMockData # Pending
    /\ Len(rows) = 2
    /\ Cardinality(AcceptedRows) = 2
    /\ samples[1][0] = 2
    /\ totals[1][0] = 3

(***************************************************************************)
(* The tile file of Theresienwiese (GENERATE_TILES_README)                 *)
(*                                                                         *)
(* Degrees are integers in units of 1e-6 degree.                           *)
(***************************************************************************)
\* metadata.boundingBox
BoxTopLeft     == << 11544973, 48136293 >>
BoxBottomRight == << 11553518, 48126496 >>
\* metadata.numTilesHeight, metadata.numTilesWidth, metadata.totalTiles
numTilesHeight == 22
numTilesWidth  == 13
totalTiles     == 286

\* edges of a 50 m tile in degrees, as the ring of tile_0_0 has them
TileLonDelta == 11545646 - 11544973
TileLatDelta == 48136293 - 48135844

\* feature of (row, col): every tile is 50 m x 50 m, tile_0_0 has its
\* top-left corner on the top-left corner of the box
GeneratedFeature(row, col) ==
    LET west  == BoxTopLeft[1] + col * TileLonDelta
        east  == BoxTopLeft[1] + (col + 1) * TileLonDelta
        north == BoxTopLeft[2] - row * TileLatDelta
        south == BoxTopLeft[2] - (row + 1) * TileLatDelta
    IN  [ id         |-> TileId(row, col),
          properties |-> [ tileId |-> TileId(row, col),
                           row |-> row, col |-> col ],
          geometry   |-> [ type |-> "Polygon",
                           coordinates |->
                             << <<west, north>>, <<east, north>>,
                                <<east, south>>, <<west, south>>,
                                <<west, north>> >> ] ]

GeneratedInit ==
    /\ generated = << >>
    /\ NotGeneratedIdle

\* the next feature, top-left to bottom-right
GenerateTile ==
    /\ Len(generated) < totalTiles
    /\ generated' = Append(generated,
                           GeneratedFeature(Len(generated) \div numTilesWidth,
                                            Len(generated) % numTilesWidth))
    /\ UNCHANGED notGeneratedVars

GeneratedNext == GenerateTile

GeneratedSpec == GeneratedInit /\ [][GeneratedNext]_vars

\* west, south, east, north of a feature
West(feature)  == SetMin({ feature.geometry.coordinates[i][1] : i \in 1..5 })
East(feature)  == SetMax({ feature.geometry.coordinates[i][1] : i \in 1..5 })
South(feature) == SetMin({ feature.geometry.coordinates[i][2] : i \in 1..5 })
North(feature) == SetMax({ feature.geometry.coordinates[i][2] : i \in 1..5 })

\* two features share more than a stretch of boundary
Overlap(f, g) ==
    /\ West(f) < East(g) /\ West(g) < East(f)
    /\ South(f) < North(g) /\ South(g) < North(f)

\* 22 rows x 13 columns = 286 tiles, numbered row-major from the north-west
\* corner, every (row, col) once, no two tiles overlapping
GridAsNumbered ==
    /\ Len(generated) = 22 * 13
    /\ \A r \in 0..21, c \in 0..12 :
          LET f == generated[r * 13 + c + 1]
          IN  /\ f.id = TileId(r, c)
              /\ f.properties = [ tileId |-> TileId(r, c), row |-> r, col |-> c ]
              /\ (c > 0) => West(f) = East(generated[r * 13 + c])
              /\ (r > 0) => North(f) = South(generated[(r - 1) * 13 + c + 1])
    /\ generated[1].id = "tile_0_0"
    /\ generated[286].id = "tile_21_12"
    /\ West(generated[1]) = BoxTopLeft[1]
    /\ North(generated[1]) = BoxTopLeft[2]
    /\ \A i, j \in 1..286 :
          i < j => /\ generated[i].id # generated[j].id
                   /\ ~Overlap(generated[i], generated[j])

\* C23: the grid of the box topLeft=[11.544973,48.136293],
\* bottomRight=[11.553518,48.126496] with 50 m tiles has 22 x 13 = 286 tiles
\* tile_0_0 .. tile_21_12, row-major from the north-west corner, every
\* (row, col) once, no two tiles overlapping, and the tiles cover the
\* bounding box exactly.
C23_ExactCover ==
    (Len(generated) = totalTiles) =>
        /\ GridAsNumbered
        /\ East(generated[286]) = BoxBottomRight[1]
        /\ South(generated[286]) = BoxBottomRight[2]

(***************************************************************************)
(* HomeScreen: TileDetailsCard                                             *)
(*                                                                         *)
(* A change of the prop `tile` and the effect it triggers (cleanup of the  *)
(* previous run, then the new run up to its first await) form one step:    *)
(* React runs them before it handles the next event.                       *)
(***************************************************************************)
MaxLoads == 3       \* runs of `load` awaiting a response at once

SelectableTiles == { TileId(0, 0), TileId(0, 1), TileId(1, 1) }

\* the cleanup of the effect: cancelled = true in the closure of every run
Cancelled(runs) == [ i \in DOMAIN runs |-> [ runs[i] EXCEPT !.cancelled = TRUE ] ]

Without(runs, i) == SubSeq(runs, 1, i - 1) \o SubSeq(runs, i + 1, Len(runs))

\* variant of the guard `if (!cancelled)` that lets every run write
MayWriteAlways(run) == TRUE

\* if (!cancelled)
MayWrite(run) == ~run.cancelled

CardInit ==
    /\ selectedTile = Null
    /\ cardTileData = Pending
    /\ isLoading = FALSE
    /\ loads = << >>
    /\ NotCardIdle

\* handleTilePress(tile), then the effect of TileDetailsCard for the new tile
HandleTilePress ==
    /\ Len(loads) < MaxLoads
    /\ \E tileId \in SelectableTiles :
          /\ selectedTile' = tileId
          /\ loads' = Append(Cancelled(loads),
                             [ tileId |-> tileId, cancelled |-> FALSE ])
    /\ isLoading' = TRUE
    /\ UNCHANGED <<cardTileData, notCardVars>>

\* handleCloseSheet, then the effect of TileDetailsCard for tile = null
HandleCloseSheet ==
    /\ selectedTile # Null
    /\ selectedTile' = Null
    /\ loads' = Cancelled(loads)
    /\ cardTileData' = Pending
    /\ UNCHANGED <<isLoading, notCardVars>>

\* a run of `load` gets its response and builds dataFromApi
LoadResolved ==
    \E i \in DOMAIN loads :
       /\ loads' = Without(loads, i)
       /\ IF MayWrite(loads[i])
          THEN /\ cardTileData' = Returned([ tileId |-> loads[i].tileId ])
               /\ isLoading' = FALSE
          ELSE UNCHANGED <<cardTileData, isLoading>>
       /\ UNCHANGED <<selectedTile, notCardVars>>

\* a run of `load` fails: fetch rejects or the status is not ok
LoadRejected ==
    \E i \in DOMAIN loads :
       /\ loads' = Without(loads, i)
       /\ IF MayWrite(loads[i])
          THEN /\ cardTileData' = Pending
               /\ isLoading' = FALSE
          ELSE UNCHANGED <<cardTileData, isLoading>>
       /\ UNCHANGED <<selectedTile, notCardVars>>

CardNext == HandleTilePress \/ HandleCloseSheet \/ LoadResolved \/ LoadRejected

CardSpec == CardInit /\ [][CardNext]_vars

\* a run started for the current selection still awaits its response
LoadPending == \E i \in DOMAIN loads : ~loads[i].cancelled

C25_LoadingOnlyWhilePending ==
    ~LoadPending => ~isLoading

(***************************************************************************)
(* LocationTrackerScreen: handleToggleSharing                              *)
(***************************************************************************)
MaxIntervals == 3   \* intervals set or about to be set

ShareInit ==
    /\ isSharing = FALSE
    /\ locationIntervalRef = 0
    /\ intervals = {}
    /\ sharingStarts = << >>
    /\ trackerMounted = TRUE
    /\ NotShareIdle

\* a press while isSharing is false: the handler runs up to
\* await Location.requestForegroundPermissionsAsync()
PressStart ==
    /\ trackerMounted
    /\ ~isSharing
    /\ Cardinality(intervals) + Len(sharingStarts) < MaxIntervals
    /\ sharingStarts' = Append(sharingStarts, "permission")
    /\ UNCHANGED <<isSharing, locationIntervalRef, intervals, trackerMounted,
                   notShareVars>>

\* the permission is granted: on to await Location.getCurrentPositionAsync
PermissionGranted ==
    \E i \in DOMAIN sharingStarts :
       /\ sharingStarts[i] = "permission"
       /\ sharingStarts' = [ sharingStarts EXCEPT ![i] = "position" ]
       /\ UNCHANGED <<isSharing, locationIntervalRef, intervals,
                      trackerMounted, notShareVars>>

\* status !== "granted", or an await before the interval throws: the handler
\* returns without setting an interval
StartAbandoned ==
    \E i \in DOMAIN sharingStarts :
       /\ sharingStarts[i] \in { "permission", "position" }
       /\ sharingStarts' = Without(sharingStarts, i)
       /\ UNCHANGED <<isSharing, locationIntervalRef, intervals,
                      trackerMounted, notShareVars>>

\* the position arrives: on to await fetch(`${API_BASE_URL}/position`)
PositionObtained ==
    \E i \in DOMAIN sharingStarts :
       /\ sharingStarts[i] = "position"
       /\ sharingStarts' = [ sharingStarts EXCEPT ![i] = "post" ]
       /\ UNCHANGED <<isSharing, locationIntervalRef, intervals,
                      trackerMounted, notShareVars>>

\* the initial post settles: setInterval, locationIntervalRef.current =
\* intervalId, setIsSharing(true)
IntervalSet ==
    \E i \in DOMAIN sharingStarts :
       /\ sharingStarts[i] = "post"
       /\ LET intervalId == SetMin((1..MaxIntervals) \ intervals)
          IN  /\ intervals' = intervals \cup { intervalId }
              /\ locationIntervalRef' = intervalId
       /\ isSharing' = TRUE
       /\ sharingStarts' = Without(sharingStarts, i)
       /\ UNCHANGED <<trackerMounted, notShareVars>>

\* a press while isSharing is true
PressStop ==
    /\ trackerMounted
    /\ isSharing
    /\ intervals' = intervals \ { locationIntervalRef }
    /\ locationIntervalRef' = 0
    /\ isSharing' = FALSE
    /\ UNCHANGED <<sharingStarts, trackerMounted, notShareVars>>

\* the cleanup of the mount effect
Unmount ==
    /\ trackerMounted
    /\ trackerMounted' = FALSE
    /\ intervals' = intervals \ { locationIntervalRef }
    /\ locationIntervalRef' = 0
    /\ UNCHANGED <<isSharing, sharingStarts, notShareVars>>

ShareNext ==
    \/ PressStart \/ PermissionGranted \/ StartAbandoned \/ PositionObtained
    \/ IntervalSet \/ PressStop \/ Unmount

ShareSpec == ShareInit /\ [][ShareNext]_vars

\* C26: at most one position-posting interval exists at any time and
\* locationIntervalRef holds it; once sharing has been stopped or the screen
\* unmounted, and no start is under way, no interval is left.
C26_SingleInterval ==
    /\ Cardinality(intervals) <= 1
    /\ intervals # {} => locationIntervalRef \in intervals
    /\ (~isSharing /\ sharingStarts = << >>) => intervals = {}
    /\ (~trackerMounted /\ sharingStarts = << >>) => intervals = {}

(***************************************************************************)
(* Range of the smoothed values                                            *)
(***************************************************************************)
\* the values before smoothing within two positions of bucket i
RawNear(i) ==
    { rawHistory[1][j].value : j \in { k \in 0..59 : k >= i - 2 /\ k <= i + 2 } }

\* C27: with non-negative bucket values, every smoothed value lies between
\* the smallest and the largest value before smoothing within two positions
\* of it, so an all-zero window stays all zero and no smoothed value exceeds
\* the largest bucket; peakCount >= currentCount >= 0 and peakCount is at
\* least every history value.
C27_SmoothedWithinRange ==
    (tileMockData # Pending) =>
        LET r == tileMockData[1]
        IN  /\ \A i \in 0..59 :
                  /\ rawHistory[1][i].value >= 0
                  /\ SetMin(RawNear(i)) <= r.history[i].value
                  /\ r.history[i].value <= SetMax(RawNear(i))
                  /\ r.history[i].value <= r.peakCount
            /\ (\A i \in 0..59 : rawHistory[1][i].value = 0)
                  => \A i \in 0..59 : r.history[i].value = 0
            /\ r.peakCount >= r.currentCount
            /\ r.currentCount >= 0

\* a bucket of 2 next to empty ones was smoothed to 1, 1, 0
C27_Witness ==
    /\ tileMockData # Pending
    /\ rawHistory[1][0].value = 2
    /\ rawHistory[1][1].value = 0
    /\ tileMockData[1].history[0].value = 1
    /\ tileMockData[1].history[1].value = 1
    /\ tileMockData[1].history[2].value = 0
    /\ tileMockData[1].peakCount >= 1

(***************************************************************************)
(* Overlapping polls of fetchTileData                                      *)
(***************************************************************************)
\* `map` holds, for the counts `tiles` of one response and their one maximum,
\* count/max*100 capped at 100 for every key, 0 when the maximum is 0
NormalizationOf(map, tiles) ==
    LET max == IF DOMAIN tiles = {} THEN 0
               ELSE SetMax({ tiles[id] : id \in DOMAIN tiles } \cup {0})
    IN  /\ DOMAIN map = DOMAIN tiles
        /\ \A id \in DOMAIN tiles :
              IF max > 0
              THEN /\ map[id].den > 0
                   /\ map[id].num * max = tiles[id] * 100 * map[id].den
              ELSE map[id].num = 0

\* C28: with several polls in flight, the tileIntensityMap that
\* updateTileColors observes is at every moment the normalization of exactly
\* one /map response with its one maximum; a poll that fails or is not OK
\* leaves the previous map as it was.
C28_OneResponseAtATime ==
    [][ /\ (lastTiles' # Pending) =>
              NormalizationOf(tileIntensityMap', lastTiles'[1])
        /\ (lastTiles' = lastTiles) => tileIntensityMap' = tileIntensityMap
        /\ (rendered' # rendered) =>
              /\ sourceAdded
              /\ lastTiles' # Pending
              /\ \A id \in TileIds :
                    rendered'[1][id] =
                       IF id \in DOMAIN tileIntensityMap'
                       THEN tileIntensityMap'[id] ELSE Zero ]_vars

\* two polls are in flight while the map shown is that of {10, 100, 0}
C28_Witness ==
    /\ inFlight = 2
    /\ sourceAdded
    /\ lastTiles = Returned(ScenarioCounts)
    /\ tileIntensityMap[TileId(0, 0)] = Frac(10, 1)
    /\ rendered # Pending
    /\ rendered[1][TileId(1, 1)] = Zero

(***************************************************************************)
(* FriendsScreen: scanning a friend code and adding the friend.  State set *)
(* by a handler is visible to the handlers of the next render only: screen *)
(* holds what the handlers now attached closed over.  The camera           *)
(* permission is taken as granted; the accept-request dialog and           *)
(* friendName's text field are left out (the name is chosen on confirming).*)
(***************************************************************************)
MaxScans    == 2    \* barcode events handled per opening of the scanner
MaxAddCalls == 2    \* handleAddFriend calls suspended at the same time

\* strings as sequences of characters
\* null, which every test of an id treats like the empty string
NoId        == << >>
OwnId       == <<"m">>
BarcodeData == { <<"f">>, <<"m">>, <<" ", "m">>, <<" ">> }
CustomNames == { << >>, <<" ">>, <<"A">> }

SelfAlert    == "You cannot add yourself as a friend"
NoUserAlert  == "User ID not available"
InvalidAlert == "Invalid QR code"
FailedAlert  == "Failed to add friend"

\* String.prototype.trim
RECURSIVE trimStart(_)
trimStart(text) ==
    IF text # << >> /\ Head(text) = " " THEN trimStart(Tail(text)) ELSE text

RECURSIVE trimEnd(_)
trimEnd(text) ==
    IF text # << >> /\ text[Len(text)] = " "
    THEN trimEnd(SubSeq(text, 1, Len(text) - 1))
    ELSE text

trim(text) == trimEnd(trimStart(text))

\* what a render hands to the handlers and to the views it creates
Snapshot ==
    [ showScanner      |-> showScanner,
      scanned          |-> scanned,
      onBarcodeScanned |-> ~(scanned \/ isProcessingScanRef),
      showNameInput    |-> showNameInput,
      isAddingFriend   |-> isAddingFriend,
      scannedFriendId  |-> scannedFriendId,
      userUuid         |-> userUuid ]

ScanInit ==
    /\ storedUuid \in { NoId, OwnId }
    /\ userUuid = NoId
    /\ showScanner = FALSE
    /\ scanned = FALSE
    /\ isAddingFriend = FALSE
    /\ showNameInput = FALSE
    /\ scannedFriendId = NoId
    /\ isProcessingScanRef = FALSE
    /\ screen = Snapshot
    /\ addCalls = << >>
    /\ addRequests = {}
    /\ namedFriends = {}
    /\ alertShown = Null
    /\ scansProcessed = 0
    /\ NotScanIdle

\* loadData of the mount effect, reloadUuid of the focus effect
LoadData ==
    /\ storedUuid # NoId
    /\ userUuid # storedUuid
    /\ userUuid' = storedUuid
    /\ UNCHANGED <<storedUuid, showScanner, scanned, isAddingFriend,
                   showNameInput, scannedFriendId, isProcessingScanRef,
                   screen, addCalls, addRequests, namedFriends, alertShown,
                   scansProcessed, notScanVars>>

\* React renders the component with the state set so far
Render ==
    /\ screen # Snapshot
    /\ screen' = Snapshot
    /\ UNCHANGED <<storedUuid, userUuid, showScanner, scanned, isAddingFriend,
                   showNameInput, scannedFriendId, isProcessingScanRef,
                   addCalls, addRequests, namedFriends, alertShown,
                   scansProcessed, notScanVars>>

\* the native Alert is closed
DismissAlert ==
    /\ alertShown # Null
    /\ alertShown' = Null
    /\ UNCHANGED <<storedUuid, userUuid, showScanner, scanned, isAddingFriend,
                   showNameInput, scannedFriendId, isProcessingScanRef,
                   screen, addCalls, addRequests, namedFriends,
                   scansProcessed, notScanVars>>

\* onPress of "Scan Friend Code"
OpenScanner ==
    /\ alertShown = Null
    /\ ~screen.showScanner /\ ~screen.showNameInput /\ ~screen.isAddingFriend
    /\ scanned' = FALSE
    /\ isProcessingScanRef' = FALSE
    /\ showScanner' = TRUE
    /\ scansProcessed' = 0
    /\ UNCHANGED <<storedUuid, userUuid, isAddingFriend, showNameInput,
                   scannedFriendId, screen, addCalls, addRequests,
                   namedFriends, alertShown, notScanVars>>

\* onRequestClose of the scanner modal and onPress of its close button
CloseScanner ==
    /\ alertShown = Null
    /\ screen.showScanner
    /\ showScanner' = FALSE
    /\ scanned' = FALSE
    /\ isAddingFriend' = FALSE
    /\ isProcessingScanRef' = FALSE
    /\ UNCHANGED <<storedUuid, userUuid, showNameInput, scannedFriendId,
                   screen, addCalls, addRequests, namedFriends, alertShown,
                   scansProcessed, notScanVars>>

\* the camera view on screen delivers a barcode: onBarcodeScanned, and
\* handleScanQRCode when the callback lets the event through
BarcodeScanned ==
    \E data \in BarcodeData :
       /\ screen.showScanner
       /\ screen.onBarcodeScanned
       /\ scansProcessed < MaxScans
       /\ data # << >> /\ ~screen.scanned /\ ~isProcessingScanRef
       /\ LET friendUuid == trim(data)
          IN  IF friendUuid # << >>
              THEN /\ scanned' = TRUE
                   /\ scannedFriendId' = friendUuid
                   /\ showScanner' = FALSE
                   /\ showNameInput' = TRUE
                   /\ isProcessingScanRef' = FALSE
                   /\ scansProcessed' = scansProcessed + 1
                   /\ UNCHANGED alertShown
              ELSE /\ alertShown' = InvalidAlert
                   /\ scanned' = FALSE
                   /\ isProcessingScanRef' = FALSE
                   /\ UNCHANGED <<scannedFriendId, showScanner, showNameInput,
                                  scansProcessed>>
       /\ UNCHANGED <<storedUuid, userUuid, isAddingFriend, screen, addCalls,
                      addRequests, namedFriends, notScanVars>>

\* onRequestClose of the name dialog and onPress of "Skip"
DismissName ==
    /\ alertShown = Null
    /\ screen.showNameInput
    /\ showNameInput' = FALSE
    /\ scannedFriendId' = NoId
    /\ scanned' = FALSE
    /\ isProcessingScanRef' = FALSE
    /\ UNCHANGED <<storedUuid, userUuid, showScanner, isAddingFriend, screen,
                   addCalls, addRequests, namedFriends, alertShown,
                   scansProcessed, notScanVars>>

\* variant that never recognises the user's own id
IsOwnIdNever(uuid, friendUuid) == FALSE

\* uuid === friendUuid
IsOwnId(uuid, friendUuid) == uuid = friendUuid

\* the reset of both early returns of handleAddFriend
RejectAddFriend(message, others) ==
    /\ isAddingFriend' = FALSE
    /\ showScanner' = FALSE
    /\ scanned' = FALSE
    /\ showNameInput' = FALSE
    /\ isProcessingScanRef' = FALSE
    /\ alertShown' = message
    /\ addCalls' = others
    /\ UNCHANGED <<scannedFriendId, addRequests, namedFriends>>

\* setIsAddingFriend(true) and fetch(`/friends/add/${friendUuid}?user_id=`)
SendAddRequest(friendUuid, uuid, others) ==
    /\ isAddingFriend' = TRUE
    /\ addRequests' = addRequests \cup { <<friendUuid, uuid>> }
    /\ addCalls' = Append(others, [ stage |-> "fetch", friendUuid |-> friendUuid,
                                    customName |-> << >>, uuid |-> uuid ])
    /\ UNCHANGED <<showScanner, scanned, showNameInput, scannedFriendId,
                   isProcessingScanRef, namedFriends, alertShown>>

\* handleAddFriend from the comparison with the user's id to its next await
ContinueAddFriend(friendUuid, customName, uuid, others) ==
    IF IsOwnId(uuid, friendUuid)
    THEN RejectAddFriend(SelfAlert, others)
    ELSE IF trim(customName) # << >>
    THEN \* saveFriendName: setFriendNames, then await AsyncStorage.setItem
         /\ namedFriends' = namedFriends \cup { friendUuid }
         /\ addCalls' = Append(others, [ stage |-> "save",
                                         friendUuid |-> friendUuid,
                                         customName |-> customName,
                                         uuid |-> uuid ])
         /\ UNCHANGED <<showScanner, scanned, isAddingFriend, showNameInput,
                        scannedFriendId, isProcessingScanRef, addRequests,
                        alertShown>>
    ELSE SendAddRequest(friendUuid, uuid, others)

\* handleConfirmName of the name dialog: handleAddFriend(scannedFriendId,
\* friendName) up to its first await
ConfirmName ==
    \E customName \in CustomNames :
       /\ alertShown = Null
       /\ screen.showNameInput
       /\ screen.scannedFriendId # NoId
       /\ Len(addCalls) < MaxAddCalls
       /\ IF screen.userUuid = NoId
          THEN /\ addCalls' = Append(addCalls,
                                     [ stage |-> "storage",
                                       friendUuid |-> screen.scannedFriendId,
                                       customName |-> customName,
                                       uuid |-> NoId ])
               /\ UNCHANGED <<showScanner, scanned, isAddingFriend,
                              showNameInput, scannedFriendId,
                              isProcessingScanRef, addRequests, namedFriends,
                              alertShown>>
          ELSE ContinueAddFriend(screen.scannedFriendId, customName,
                                 screen.userUuid, addCalls)
       /\ UNCHANGED <<storedUuid, userUuid, screen, scansProcessed,
                      notScanVars>>

\* await AsyncStorage.getItem(UUID_STORAGE_KEY) of handleAddFriend returns
StorageRead ==
    \E i \in DOMAIN addCalls :
       /\ addCalls[i].stage = "storage"
       /\ IF storedUuid # NoId
          THEN /\ userUuid' = storedUuid
               /\ ContinueAddFriend(addCalls[i].friendUuid,
                                    addCalls[i].customName, storedUuid,
                                    Without(addCalls, i))
          ELSE /\ RejectAddFriend(NoUserAlert, Without(addCalls, i))
               /\ UNCHANGED userUuid
       /\ UNCHANGED <<storedUuid, screen, scansProcessed, notScanVars>>

\* await saveFriendName(...) returns (its own catch swallows a failure)
NameSaved ==
    \E i \in DOMAIN addCalls :
       /\ addCalls[i].stage = "save"
       /\ SendAddRequest(addCalls[i].friendUuid, addCalls[i].uuid,
                         Without(addCalls, i))
       /\ UNCHANGED <<storedUuid, userUuid, screen, scansProcessed,
                      notScanVars>>

\* the response has data.status === "success"
AddFriendSucceeded ==
    \E i \in DOMAIN addCalls :
       /\ addCalls[i].stage = "fetch"
       /\ isAddingFriend' = FALSE
       /\ showScanner' = FALSE
       /\ scanned' = FALSE
       /\ showNameInput' = FALSE
       /\ scannedFriendId' = NoId
       /\ isProcessingScanRef' = FALSE
       /\ addCalls' = Without(addCalls, i)
       /\ UNCHANGED <<storedUuid, userUuid, screen, addRequests, namedFriends,
                      alertShown, scansProcessed, notScanVars>>

\* the response is not OK, has another status, or the fetch throws
AddFriendFailed ==
    \E i \in DOMAIN addCalls :
       /\ addCalls[i].stage = "fetch"
       /\ isAddingFriend' = FALSE
       /\ scanned' = FALSE
       /\ isProcessingScanRef' = FALSE
       /\ alertShown' = FailedAlert
       /\ addCalls' = Without(addCalls, i)
       /\ UNCHANGED <<storedUuid, userUuid, showScanner, showNameInput,
                      scannedFriendId, screen, addRequests, namedFriends,
                      scansProcessed, notScanVars>>

ScanNext ==
    \/ LoadData \/ Render \/ DismissAlert \/ OpenScanner \/ CloseScanner
    \/ BarcodeScanned \/ DismissName \/ ConfirmName \/ StorageRead
    \/ NameSaved \/ AddFriendSucceeded \/ AddFriendFailed

ScanSpec == ScanInit /\ [][ScanNext]_vars

\* C29: between one opening of the scanner and its closing at most one
\* barcode event is processed by handleScanQRCode, also when the camera
\* delivers a second event before the component has rendered again.
C29_AtMostOneScan == scansProcessed <= 1

\* isAddingFriend, showScanner, scanned and showNameInput false, guard released
ScreenIdle(adding, scanner, wasScanned, nameInput, guard) ==
    ~adding /\ ~scanner /\ ~wasScanned /\ ~nameInput /\ ~guard

\* C30: handleAddFriend never sends an add request for the user's own id; when
\* the scanned id is the stored user id no name is saved, no request is issued
\* and the screen is idle again (isAddingFriend, showScanner, scanned and
\* showNameInput false, scan guard released), and the same reset happens when
\* no user id is available.
C30_NeverAddsSelf ==
    [][ /\ \A request \in addRequests' :
              request[1] # request[2] /\ request[1] # storedUuid
        /\ storedUuid \notin namedFriends'
        /\ (\/ alertShown' # alertShown /\ alertShown' \in { SelfAlert, NoUserAlert }
            \/ \E i \in DOMAIN addCalls :
                  /\ addCalls[i].stage = "storage"
                  /\ addCalls' = Without(addCalls, i))
           => /\ ScreenIdle(isAddingFriend', showScanner', scanned',
                            showNameInput', isProcessingScanRef')
              /\ addRequests' = addRequests
              /\ namedFriends' = namedFriends ]_vars

\* the user's own code was scanned and confirmed: rejected, nothing sent or saved
C30_Witness ==
    /\ alertShown = SelfAlert
    /\ scannedFriendId = OwnId
    /\ userUuid = OwnId
    /\ ~showNameInput /\ ~isAddingFriend
    /\ addRequests = {}
    /\ namedFriends = {}

====
